---- MODULE Spec2Model ----
(***************************************************************************)
(* Per-page, navigation-windowed event collection of js-reverse-mcp:       *)
(* PageCollector<T> (ConsoleCollector, NetworkCollector) from               *)
(* src/src/PageCollector.ts, WebSocketCollector from src/unnamed/part_000   *)
(* (WebSocketCollector.ts) and the page bookkeeping of McpContext           *)
(* (src/src/McpContext.ts).                                                 *)
(*                                                                         *)
(* JavaScript arrays are 0-based, TLA+ sequences are 1-based: the current   *)
(* navigation navigations[0] of the source is storage[k][p][1] here.        *)
(* A WeakMap<Page, X> of the source is a pair of functions over Pages: a    *)
(* has-flag and the value.                                                  *)
(***************************************************************************)
EXTENDS Integers, Sequences, FiniteSets, TLC

\* ------------------------------------------------------------------ bounds
MaxItems == 3          \* messages / requests collected for the first page
MaxConnections == 2    \* WebSocket connections created on the first page
MaxNavs == 4           \* main-frame navigations of the first page
MaxFrames == 1         \* frames the connections of one page hold
LateItems == 1         \* items collected for a page opened later
LateNavs == 1          \* main-frame navigations of a page opened later
LateFrames == 2        \* frames the connections of a page opened later hold
OtherItems == 1        \* items collected beside the collector and page exercised
MaxSafeInteger == 3    \* stands for Number.MAX_SAFE_INTEGER in createIdGenerator
MaxFpFrames == 3       \* length of the mixed frame lists analysed
GzipFrames == 5        \* length of the lists of gzip frames analysed
MaxGroups == 27        \* most groups a frame list analysed falls into
MaxAnalyses == 2       \* calls of the analysis on one frame list
MaxIndex == 730        \* largest sorted position whose group id is computed
MaxCalls == 3          \* tool calls in flight at once
MaxReinits == 2        \* calls of reinitDebugger in flight at once
MaxListeners == 3      \* registrations of a debugger listener, all clients
ToolEvents == 3        \* WebSocket events delivered while the tools are exercised

\* ------------------------------------------------------- program constants
maxNavigationSaved == 3        \* PageCollector.#maxNavigationSaved
wsMaxNavigationSaved == 3      \* WebSocketCollector.#maxNavigationSaved

Pages == {"p1", "p2"}
GenericKinds == {"console", "network"}
Kinds == GenericKinds \cup {"websocket"}
RequestIds == {"r1", "r2"}
InitiatorIds == {"r1"}
Timestamps == {1}
Frames == {"main", "sub"}
Calls == 1..MaxCalls

VARIABLES
  focus,            \* the collector and page this run exercises (environment)
  pageState,        \* browser: "absent" | "alive" | "closed" per page
  pendingCreated,   \* #onTargetCreated awaiting target.page(), per collector
  pendingDestroyed, \* #onTargetDestroyed awaiting target.page(), per collector
  newPagePending,   \* McpContext.newPage between browser.newPage() and addPage
  storage,          \* PageCollector.storage, per generic collector
  hasStorage,       \* storage.has(page)
  idGen,            \* the `i` of the page's createIdGenerator closure
  listeners,        \* listener maps the collector has registered with page.on
  initiators,       \* NetworkCollector.#initiators.get(page)
  hasInitiators,    \* #initiators.has(page) (= #cdpListeners.has(page))
  netCdp,           \* Network.requestWillBeSent listeners on the page's client
  netRegistered,    \* the listener #cdpListeners holds is one of them
  wsStorage,        \* WebSocketCollector.#storage
  wsHasStorage,     \* #storage.has(page)
  wsIdGen,          \* the `i` of #idGenerators.get(page)
  connectionMap,    \* #connectionMap.get(page)
  handlerMap,       \* the connectionMap captured by the page's handlers
  wsHasCdp,         \* #cdpListeners.has(page)
  wsCdp,            \* handler sets registered on the page's client
  wsPageL,          \* framenavigated listeners registered with page.on
  wsShared,         \* the handlers' map is the one #connectionMap holds
  nextSeq,          \* identity of the next object collected
  navs,             \* rotations seen since the page was tracked, per collector
  wrapped,          \* the page's generator has wrapped around
  produced,         \* every item collected since tracking: identity, epoch, id
  last,             \* the operation that ran last
  fpFrames,         \* the frame list handed to analyzeWebSocketFramesV2
  fpSummaries,      \* the summaries its calls returned, in call order
  toolPc,           \* where each tool call stands in the registerTool callback
  toolMutex,        \* main.ts toolMutex: #locked and the queue #acquirers
  toolResult,       \* how each call's last run ended
  cliArgv,          \* the options on the command line
  cliArgs,          \* what parseArguments returned for them, once it ran
  selectedPage,     \* McpContext.#selectedPage
  dbgTasks,         \* the calls of #initDebugger / reinitDebugger in flight
  debuggerContext,  \* DebuggerContext: #client, #enabled, #pausedState, ...
  dbgListeners,     \* per protocol client: registrations of the three listeners
  cdpDebugger,      \* per protocol client: the browser has the domain enabled
  dbgLast,          \* the last call of a DebuggerContext command, and its outcome
  attached,         \* the last paused/resumed event of the attached client
  trafficSummaryCache, \* McpContext.#trafficSummaryCache: wsid -> summary
  cachedFrom        \* the connection and frames each cached summary is of

genericVars == <<storage, hasStorage, idGen, listeners>>
netVars == <<initiators, hasInitiators, netCdp, netRegistered>>
wsVars == <<wsStorage, wsHasStorage, wsIdGen, connectionMap, handlerMap,
            wsHasCdp, wsCdp, wsPageL, wsShared>>
browserVars == <<pageState, pendingCreated, pendingDestroyed, newPagePending>>
ghostVars == <<nextSeq, navs, wrapped, produced>>
collectorVars ==
  <<focus, browserVars, genericVars, netVars, wsVars, ghostVars, last>>
fpVars == <<fpFrames, fpSummaries>>
toolVars == <<toolPc, toolMutex, toolResult>>
cliVars == <<cliArgv, cliArgs>>
dbgVars == <<debuggerContext, dbgListeners, cdpDebugger, dbgLast, attached>>
mcpVars == <<selectedPage, dbgTasks, dbgVars>>
cacheVars == <<trafficSummaryCache, cachedFrom>>
vars == <<collectorVars, mcpVars, fpVars, toolVars, cliVars, cacheVars>>
besideCollectors == <<fpVars, toolVars, cliVars, cacheVars>>
besideFp == <<collectorVars, mcpVars, toolVars, cliVars, cacheVars>>
besideTools == <<collectorVars, mcpVars, fpVars, cliVars, cacheVars>>
besideCli == <<collectorVars, mcpVars, fpVars, toolVars, cacheVars>>
besideCache == <<collectorVars, fpVars, toolVars, cliVars>>

\* ------------------------------------------------------------ sequences
Take(s, n) == SubSeq(s, 1, IF Len(s) < n THEN Len(s) ELSE n)

RECURSIVE Flatten(_)
Flatten(ss) == IF ss = <<>> THEN <<>> ELSE Head(ss) \o Flatten(Tail(ss))

Reverse(s) == [i \in 1..Len(s) |-> s[Len(s) + 1 - i]]

Range(s) == {s[i] : i \in 1..Len(s)}
EmptyMap == [r \in {} |-> 0]

\* ------------------------------------------------- createIdGenerator
\* `let i = 1` of createIdGenerator (PageCollector.ts and WebSocketCollector.ts)
createIdGenerator == 1
wsCreateIdGenerator == 1

\* A generator that forgets to advance.
idGeneratorStuck(i) == [value |-> i, next |-> i]

\* One call of the closure createIdGenerator returns: the value it returns
\* and the value of i it leaves behind.
idGenerator(i) ==
  LET j == IF i = MaxSafeInteger THEN 0 ELSE i
  IN  [value |-> j, next |-> j + 1]

wsIdGenerator(i) ==
  LET j == IF i = MaxSafeInteger THEN 0 ELSE i
  IN  [value |-> j, next |-> j + 1]

\* ------------------------------------------------- PageCollector<T>
\* A collector callback that puts the item in front of navigations[0].
collectUnshift(navigations, i, item) ==
  LET withId == [item EXCEPT !.id = idGenerator(i).value]
  IN  [navigations EXCEPT ![1] = <<withId>> \o @]

\* The collector callback of #initializePage: tag the item and push it on
\* navigations[0].
collect(navigations, i, item) ==
  LET withId == [item EXCEPT !.id = idGenerator(i).value]
  IN  [navigations EXCEPT ![1] = Append(@, withId)]

\* A rotation that never discards an epoch.
splitAfterNavigationUnbounded(navigations) == << <<>> >> \o navigations

\* PageCollector.splitAfterNavigation: unshift([]) then splice(3).
splitAfterNavigation(navigations) ==
  Take(<< <<>> >> \o navigations, maxNavigationSaved)

\* The predicate NetworkCollector.splitAfterNavigation hands to findLastIndex.
isMainFrameNavigation(request) ==
  IF request.mainFrame THEN request.isNavigationRequest ELSE FALSE

\* Array.prototype.findLastIndex, 1-based; 0 stands for -1.
RECURSIVE findLastIndexFrom(_, _)
findLastIndexFrom(requests, i) ==
  IF i = 0 THEN 0
  ELSE IF isMainFrameNavigation(requests[i]) THEN i
  ELSE findLastIndexFrom(requests, i - 1)

\* A cut at the first main-frame navigation request instead of the last.
RECURSIVE findIndexFrom(_, _)
findIndexFrom(requests, i) ==
  IF i > Len(requests) THEN 0
  ELSE IF isMainFrameNavigation(requests[i]) THEN i
  ELSE findIndexFrom(requests, i + 1)

findFirstIndex(requests) == findIndexFrom(requests, 1)

findLastIndex(requests) == findLastIndexFrom(requests, Len(requests))

\* NetworkCollector.splitAfterNavigation on the epoch list: requests.splice
\* (lastRequestIdx) leaves the head in place, the tail is unshifted.  There
\* is no splice(maxNavigationSaved) in the override.
networkSplitAfterNavigation(navigations) ==
  LET requests == navigations[1]
      lastRequestIdx == findLastIndex(requests)
  IN  IF lastRequestIdx # 0
      THEN << SubSeq(requests, lastRequestIdx, Len(requests)) >>
           \o << SubSeq(requests, 1, lastRequestIdx - 1) >>
           \o Tail(navigations)
      ELSE << <<>> >> \o navigations

\* A rotation that leaves the initiator map as it is.
clearInitiatorsSkipped(initiatorMap) == initiatorMap

\* initiatorMap.clear() at the end of NetworkCollector.splitAfterNavigation.
clearInitiators(initiatorMap) == EmptyMap

\* The splitAfterNavigation the framenavigated listener of kind k reaches.
split(k, navigations) ==
  IF k = "network" THEN networkSplitAfterNavigation(navigations)
  ELSE splitAfterNavigation(navigations)

\* The page's framenavigated listeners run one after the other: n rotations.
RECURSIVE splitN(_, _, _)
splitN(k, navigations, n) ==
  IF n = 0 THEN navigations ELSE splitN(k, split(k, navigations), n - 1)

\* A getData that ignores includePreservedData and always returns every
\* epoch it reads.
getDataIgnoresFlag(k, p, includePreservedData) ==
  IF ~hasStorage[k][p] THEN <<>>
  ELSE Flatten(Reverse(Take(storage[k][p], maxNavigationSaved + 1)))

\* PageCollector.getData: navigations[0], or navigations[3], [2], [1], [0].
getData(k, p, includePreservedData) ==
  IF ~hasStorage[k][p] THEN <<>>
  ELSE IF ~includePreservedData THEN storage[k][p][1]
  ELSE LET navigations == storage[k][p]
           at(index) == IF index + 1 <= Len(navigations)
                        THEN navigations[index + 1] ELSE <<>>
       IN  Flatten([j \in 1..(maxNavigationSaved + 1) |->
                      at(maxNavigationSaved + 1 - j)])

\* A find that looks at navigations[0] only.
findCurrentOnly(k, p, stableId) ==
  IF ~hasStorage[k][p] THEN <<>>
  ELSE Take(SelectSeq(storage[k][p][1], LAMBDA x : x.id = stableId), 1)

\* PageCollector.find with the filter of getById: the first item, navigation
\* by navigation from navigations[0], whose stable id is stableId; <<>> for
\* undefined.
find(k, p, stableId) ==
  IF ~hasStorage[k][p] THEN <<>>
  ELSE LET all == Flatten(storage[k][p])
           hits == {i \in 1..Len(all) : all[i].id = stableId}
       IN  IF hits = {} THEN <<>>
           ELSE << all[CHOOSE i \in hits : \A j \in hits : i <= j] >>

\* PageCollector.getById.
getById(k, p, stableId) ==
  IF ~hasStorage[k][p]
  THEN [ok |-> FALSE, error |-> "No requests found for selected page"]
  ELSE IF find(k, p, stableId) # <<>>
  THEN [ok |-> TRUE, item |-> find(k, p, stableId)[1]]
  ELSE [ok |-> FALSE, error |-> "Request not found for selected page"]

\* NetworkCollector.getInitiatorByRequestId: the map's entry, or undefined.
getInitiatorByRequestId(p, requestId) ==
  IF ~hasInitiators[p] THEN "undefined"
  ELSE IF requestId \in DOMAIN initiators[p] THEN "initiator"
  ELSE "undefined"

\* ------------------------------------------------- WebSocketCollector
\* WebSocketCollector.#splitAfterNavigation on the epoch list.
wsSplitAfterNavigation(navigations) ==
  Take(<< <<>> >> \o navigations, wsMaxNavigationSaved)

RECURSIVE wsSplitN(_, _)
wsSplitN(navigations, n) ==
  IF n = 0 THEN navigations
  ELSE wsSplitN(wsSplitAfterNavigation(navigations), n - 1)

\* A handler mutates the record its map holds: the same object the epoch
\* list holds.  A record the epoch list no longer holds is out of view.
updateRecord(navigations, ref, f) ==
  [e \in 1..Len(navigations) |->
     [i \in 1..Len(navigations[e]) |->
        IF navigations[e][i].seq = ref THEN f[navigations[e][i]]
        ELSE navigations[e][i]]]

\* A record onCreated forgets to mark open.
wsDataConnecting(seq, ep, i, requestId) ==
  [seq |-> seq, ep |-> ep, id |-> wsIdGenerator(i).value,
   requestId |-> requestId, status |-> "connecting", closedAt |-> 0,
   frames |-> <<>>]

\* The record onCreated builds, as it is when the handler returns.
wsData(seq, ep, i, requestId) ==
  [seq |-> seq, ep |-> ep, id |-> wsIdGenerator(i).value,
   requestId |-> requestId, status |-> "open", closedAt |-> 0,
   frames |-> <<>>]

\* A registration that keeps the record a requestId maps to already.
registerConnectionKeepFirst(map, requestId, seq) ==
  [r \in DOMAIN map \cup {requestId} |->
     IF r \in DOMAIN map THEN map[r] ELSE seq]

\* connectionMap.set(event.requestId, wsData) in onCreated.
registerConnection(map, requestId, seq) ==
  [r \in DOMAIN map \cup {requestId} |->
     IF r = requestId THEN seq ELSE map[r]]

\* A handler that puts the new frame first.
unshiftFrame(ws, direction, event) ==
  [ws EXCEPT !.frames = << [direction |-> direction,
                            timestamp |-> event.timestamp * 1000,
                            opcode |-> event.opcode,
                            payloadData |-> event.payloadData] >> \o @]

\* wsData.frames.push({...}) of onFrameSent / onFrameReceived.
pushFrame(ws, direction, event) ==
  [ws EXCEPT !.frames = Append(@, [direction |-> direction,
                                   timestamp |-> event.timestamp * 1000,
                                   opcode |-> event.opcode,
                                   payloadData |-> event.payloadData])]

\* The two assignments of onClosed.
closeConnection(ws, timestamp) ==
  [ws EXCEPT !.status = "closed", !.closedAt = timestamp * 1000]

\* A frame handler that makes up a record for a requestId it does not know.
onFramePhantom(navigations, map, requestId, direction, event) ==
  IF requestId \notin DOMAIN map
  THEN [navigations EXCEPT ![1] = Append(@,
          pushFrame([seq |-> 0, ep |-> 0, id |-> -1, requestId |-> requestId,
                     status |-> "open", closedAt |-> 0, frames |-> <<>>],
                    direction, event))]
  ELSE LET push == [ws \in Range(Flatten(navigations)) |->
                      pushFrame(ws, direction, event)]
       IN  updateRecord(navigations, map[requestId], push)

\* onFrameSent / onFrameReceived on the epoch list: look the record up in the
\* handlers' map, return when there is none, else push the frame.
onFrame(navigations, map, requestId, direction, event) ==
  IF requestId \notin DOMAIN map THEN navigations
  ELSE LET push == [ws \in Range(Flatten(navigations)) |->
                      pushFrame(ws, direction, event)]
       IN  updateRecord(navigations, map[requestId], push)

\* A closed handler that goes by the records' requestId, not by the map.
onClosedByRequestId(navigations, map, requestId, timestamp) ==
  [e \in 1..Len(navigations) |->
     [i \in 1..Len(navigations[e]) |->
        IF navigations[e][i].requestId = requestId
        THEN closeConnection(navigations[e][i], timestamp)
        ELSE navigations[e][i]]]

\* onClosed on the epoch list.
onClosed(navigations, map, requestId, timestamp) ==
  IF requestId \notin DOMAIN map THEN navigations
  ELSE LET close == [ws \in Range(Flatten(navigations)) |->
                       closeConnection(ws, timestamp)]
       IN  updateRecord(navigations, map[requestId], close)

\* WebSocketCollector.getData.
wsGetData(p, includePreservedData) ==
  IF ~wsHasStorage[p] THEN <<>>
  ELSE IF ~includePreservedData
  THEN (IF Len(wsStorage[p]) >= 1 THEN wsStorage[p][1] ELSE <<>>)
  ELSE LET navigations == wsStorage[p]
           at(index) == IF index + 1 <= Len(navigations)
                        THEN navigations[index + 1] ELSE <<>>
       IN  Flatten([j \in 1..(wsMaxNavigationSaved + 1) |->
                      at(wsMaxNavigationSaved + 1 - j)])

\* WebSocketCollector.find with an id filter; <<>> for undefined.
wsFind(p, stableId) ==
  IF ~wsHasStorage[p] THEN <<>>
  ELSE LET all == Flatten(wsStorage[p])
           hits == {i \in 1..Len(all) : all[i].id = stableId}
       IN  IF hits = {} THEN <<>>
           ELSE << all[CHOOSE i \in hits : \A j \in hits : i <= j] >>

\* WebSocketCollector.getById.
wsGetById(p, stableId) ==
  IF ~wsHasStorage[p]
  THEN [ok |-> FALSE,
        error |-> "No WebSocket connections found for selected page"]
  ELSE IF wsFind(p, stableId) # <<>>
  THEN [ok |-> TRUE, item |-> wsFind(p, stableId)[1]]
  ELSE [ok |-> FALSE,
        error |-> "WebSocket connection not found for selected page"]


\* ------------------------------------------------- traffic fingerprints
\* A payload string is the sequence of its UTF-16 code units; a hex string
\* and a group id are sequences of one-character strings.
HexDigits ==
  <<"0", "1", "2", "3", "4", "5", "6", "7", "8", "9",
    "a", "b", "c", "d", "e", "f">>

Letters ==
  <<"A", "B", "C", "D", "E", "F", "G", "H", "I", "J", "K", "L", "M",
    "N", "O", "P", "Q", "R", "S", "T", "U", "V", "W", "X", "Y", "Z">>

\* Number.prototype.toString(16).
RECURSIVE toString16(_)
toString16(n) ==
  IF n < 16 THEN << HexDigits[n + 1] >>
  ELSE Append(toString16(n \div 16), HexDigits[(n % 16) + 1])

\* String.prototype.padStart(2, '0').
padStart2(str) == IF Len(str) < 2 THEN <<"0">> \o str ELSE str

\* parseInt(str, 16) of a string of hex digits.
RECURSIVE parseInt16(_)
parseInt16(str) ==
  IF str = <<>> THEN 0
  ELSE parseInt16(SubSeq(str, 1, Len(str) - 1)) * 16
       + (CHOOSE d \in 0..15 : HexDigits[d + 1] = str[Len(str)])

startsWith(str, prefix) ==
  Len(str) >= Len(prefix) /\ SubSeq(str, 1, Len(prefix)) = prefix

\* The value of a base64 character: A-Z, a-z, 0-9, + and /; -1 otherwise.
base64Value(c) ==
  IF c >= 65 /\ c <= 90 THEN c - 65
  ELSE IF c >= 97 /\ c <= 122 THEN c - 71
  ELSE IF c >= 48 /\ c <= 57 THEN c + 4
  ELSE IF c = 43 THEN 62
  ELSE IF c = 47 THEN 63
  ELSE -1

\* atob: ASCII whitespace is dropped, up to two trailing '=' of a string
\* whose length is a multiple of 4 are dropped, a length of 1 modulo 4 or
\* any other character raises; [ok, bytes].
atob(data) ==
  LET stripped == SelectSeq(data, LAMBDA c : c \notin {9, 10, 12, 13, 32})
      n == Len(stripped)
      pad == IF n % 4 = 0 /\ n >= 1 /\ stripped[n] = 61
             THEN (IF n >= 2 /\ stripped[n - 1] = 61 THEN 2 ELSE 1)
             ELSE 0
      chars == SubSeq(stripped, 1, n - pad)
      m == Len(chars)
      v(i) == base64Value(chars[i])
      byte(j) == LET q == (8 * j) \div 6
                     r == (8 * j) % 6
                     shift == IF r = 0 THEN 16 ELSE IF r = 2 THEN 4 ELSE 1
                 IN  ((v(q + 1) * 64 + v(q + 2)) \div shift) % 256
  IN  IF m % 4 = 1 \/ \E i \in 1..m : v(i) = -1
      THEN [ok |-> FALSE, bytes |-> <<>>]
      ELSE [ok |-> TRUE,
            bytes |-> [j \in 1..((m * 6) \div 8) |-> byte(j - 1)]]

\* The hex of the first maxBytes code units of a binary string.
RECURSIVE hexOf(_, _)
hexOf(binary, maxBytes) ==
  IF binary = <<>> \/ maxBytes = 0 THEN <<>>
  ELSE padStart2(toString16(Head(binary))) \o hexOf(Tail(binary), maxBytes - 1)

\* base64ToHex: '' when atob raises.
base64ToHex(base64, maxBytes) ==
  IF atob(base64).ok THEN hexOf(atob(base64).bytes, maxBytes) ELSE <<>>

\* payload.match(/^[A-Za-z0-9+/]+=*$/)
matchesBase64(payload) ==
  \E k \in 1..Len(payload) :
    /\ \A i \in 1..k : base64Value(payload[i]) # -1
    /\ \A i \in (k + 1)..Len(payload) : payload[i] = 61

getHead4B(payload, opcode) ==
  IF opcode = 2 \/ matchesBase64(payload) THEN base64ToHex(payload, 4)
  ELSE hexOf(payload, 4)

getSizeCategory(size) ==
  IF size < 32 THEN "tiny"
  ELSE IF size < 128 THEN "small"
  ELSE IF size < 512 THEN "medium"
  ELSE IF size < 2048 THEN "large"
  ELSE "xlarge"

\* A hint that takes the gzip magic only when it is the whole head.
guessHintFromHeadExact(head4B) ==
  IF head4B = <<"1", "f", "8", "b">> THEN "Gzip" ELSE "-"

guessHintFromHead(head4B) ==
  IF head4B = <<>> THEN "-"
  ELSE IF startsWith(head4B, <<"1", "f", "8", "b">>) THEN "Gzip"
  ELSE IF SubSeq(head4B, 1, 2) \in
            { <<"0", "8">>, <<"0", "a">>, <<"1", "0">>, <<"1", "2">>,
              <<"1", "8">>, <<"1", "a">>, <<"2", "0">>, <<"2", "2">> }
  THEN "Protobuf"
  ELSE IF SubSeq(head4B, 1, 2) \in { <<"7", "b">>, <<"5", "b">> } THEN "JSON"
  ELSE IF /\ parseInt16(SubSeq(head4B, 1, 2)) >= 128
          /\ parseInt16(SubSeq(head4B, 1, 2)) <= 191
  THEN "MsgPack"
  ELSE IF head4B = <<"2", "8", "b", "5", "2", "f", "f", "d">> THEN "Zstd"
  ELSE IF head4B = <<"7", "0", "6", "9", "6", "e", "6", "7">> THEN "ping"
  ELSE IF head4B = <<"7", "0", "6", "f", "6", "e", "6", "7">> THEN "pong"
  ELSE "-"

\* A positional base-26 id: the zero digit is "A" at every place.
RECURSIVE generateGroupIdPlainFrom(_, _)
generateGroupIdPlainFrom(n, id) ==
  LET next == << Letters[(n % 26) + 1] >> \o id
      m == n \div 26
  IN  IF m > 0 THEN generateGroupIdPlainFrom(m, next) ELSE next

generateGroupIdPlain(index) == generateGroupIdPlainFrom(index, <<>>)

\* generateGroupId: the do-while loop, one letter per round.
RECURSIVE generateGroupIdFrom(_, _)
generateGroupIdFrom(n, id) ==
  LET next == << Letters[(n % 26) + 1] >> \o id
      m == (n \div 26) - 1
  IN  IF m >= 0 THEN generateGroupIdFrom(m, next) ELSE next

generateGroupId(index) == generateGroupIdFrom(index, <<>>)

\* The groupMap key `${direction}:${head4B}:${sizeCategory}`: its three
\* parts hold no colon, so the string and the triple determine each other.
groupKey(frame) ==
  << frame.direction, getHead4B(frame.payloadData, frame.opcode),
     getSizeCategory(Len(frame.payloadData)) >>

\* One round of frames.forEach: groupMap, its entries in insertion order,
\* after the frame at index (from 0) is added.
addFrame(groupMap, frame, index) ==
  LET key == groupKey(frame)
      size == Len(frame.payloadData)
      at == {i \in 1..Len(groupMap) : groupMap[i].key = key}
  IN  IF at = {}
      THEN Append(groupMap,
                  [key |-> key, direction |-> key[1], head4B |-> key[2],
                   sizeCategory |-> key[3], indices |-> << index >>,
                   minSize |-> size, maxSize |-> size])
      ELSE LET i == CHOOSE i \in at : TRUE
           IN  [groupMap EXCEPT
                  ![i].indices = Append(@, index),
                  ![i].minSize = IF size < @ THEN size ELSE @,
                  ![i].maxSize = IF size > @ THEN size ELSE @]

\* groupMap after frames.forEach has visited the first n frames; each round
\* works on the map the round before it left.
RECURSIVE forEachFrame(_, _)
forEachFrame(frames, n) ==
  IF n = 0 THEN <<>>
  ELSE CHOOSE next \in { addFrame(groupMap, frames[n], n - 1) :
                           groupMap \in {forEachFrame(frames, n - 1)} } : TRUE

\* A sort by count that puts the later of two entries of one count first.
sortByCountLaterFirst(entries) ==
  LET before(i) ==
        {j \in 1..Len(entries) :
           \/ Len(entries[j].indices) > Len(entries[i].indices)
           \/ /\ Len(entries[j].indices) = Len(entries[i].indices)
              /\ j > i}
  IN  [r \in 1..Len(entries) |->
         entries[CHOOSE i \in 1..Len(entries) : Cardinality(before(i)) = r - 1]]

\* groupEntries.sort((a, b) => b.indices.length - a.indices.length): a
\* stable sort, so an entry comes after the entries of a higher count and
\* after the earlier entries of its own count.
sortByCount(entries) ==
  LET before(i) ==
        {j \in 1..Len(entries) :
           \/ Len(entries[j].indices) > Len(entries[i].indices)
           \/ /\ Len(entries[j].indices) = Len(entries[i].indices)
              /\ j < i}
  IN  [r \in 1..Len(entries) |->
         entries[CHOOSE i \in 1..Len(entries) : Cardinality(before(i)) = r - 1]]

\* Samples taken from the end of the member list.
sampleIndicesLast(indices) ==
  SubSeq(indices, IF Len(indices) > 3 THEN Len(indices) - 2 ELSE 1,
         Len(indices))

\* group.indices.slice(0, 3)
sampleIndicesOf(indices) == Take(indices, 3)

\* The summary built from the sorted entries.
summaryOf(frames, groupEntries, wsid, url) ==
  LET groups ==
        [idx \in 1..Len(groupEntries) |->
           LET group == groupEntries[idx] IN
           [id |-> generateGroupId(idx - 1),
            direction |-> group.direction,
            head4B |-> group.head4B,
            sizeCategory |-> group.sizeCategory,
            count |-> Len(group.indices),
            minSize |-> group.minSize,
            maxSize |-> group.maxSize,
            hint |-> guessHintFromHead(group.head4B),
            sampleIndices |-> sampleIndicesOf(group.indices)]]
      ids == {generateGroupId(idx - 1) : idx \in 1..Len(groupEntries)}
  IN  [wsid |-> wsid,
       url |-> url,
       durationMs |-> IF Len(frames) > 1
                      THEN frames[Len(frames)].timestamp - frames[1].timestamp
                      ELSE 0,
       totalFrames |-> Len(frames),
       sentCount |-> Len(SelectSeq(frames, LAMBDA f : f.direction = "sent")),
       receivedCount |->
         Len(SelectSeq(frames, LAMBDA f : f.direction = "received")),
       groups |-> groups,
       groupToIndices |->
         [id \in ids |->
            LET pos == CHOOSE i \in 1..Len(groupEntries) :
                          /\ generateGroupId(i - 1) = id
                          /\ \A j \in 1..Len(groupEntries) :
                                generateGroupId(j - 1) = id => j <= i
            IN  groupEntries[pos].indices]]

analyzeWebSocketFramesV2(frames, wsid, url) ==
  CHOOSE summary \in
    { summaryOf(frames, groupEntries, wsid, url) :
        groupEntries \in
          { sortByCount(groupMap) :
              groupMap \in {forEachFrame(frames, Len(frames))} } } : TRUE

\* ------------------------------------------------- the state after start-up
Op(op, k, p, a) == [op |-> op, kind |-> k, page |-> p, arg |-> a]

\* McpContext.from on a browser that shows the pages of `shown`: the three
\* collectors are constructed and init() has called addPage for each page.
StartWith(shown) ==
  /\ pageState = [p \in Pages |-> IF p \in shown THEN "alive" ELSE "absent"]
  /\ pendingCreated = [k \in Kinds |-> [p \in Pages |-> FALSE]]
  /\ pendingDestroyed = [k \in Kinds |-> [p \in Pages |-> FALSE]]
  /\ newPagePending = [p \in Pages |-> FALSE]
  /\ hasStorage = [k \in GenericKinds |-> [p \in Pages |-> p \in shown]]
  /\ storage = [k \in GenericKinds |->
                  [p \in Pages |-> IF p \in shown THEN << <<>> >> ELSE <<>>]]
  /\ idGen = [k \in GenericKinds |->
                [p \in Pages |-> IF p \in shown THEN createIdGenerator ELSE 0]]
  /\ listeners = [k \in GenericKinds |->
                    [p \in Pages |-> IF p \in shown THEN 1 ELSE 0]]
  /\ initiators = [p \in Pages |-> EmptyMap]
  /\ hasInitiators = [p \in Pages |-> p \in shown]
  /\ netCdp = [p \in Pages |-> IF p \in shown THEN 1 ELSE 0]
  /\ netRegistered = [p \in Pages |-> p \in shown]
  /\ wsHasStorage = [p \in Pages |-> p \in shown]
  /\ wsStorage = [p \in Pages |-> IF p \in shown THEN << <<>> >> ELSE <<>>]
  /\ wsIdGen = [p \in Pages |-> IF p \in shown THEN wsCreateIdGenerator ELSE 0]
  /\ connectionMap = [p \in Pages |-> EmptyMap]
  /\ handlerMap = [p \in Pages |-> EmptyMap]
  /\ wsHasCdp = [p \in Pages |-> p \in shown]
  /\ wsCdp = [p \in Pages |-> IF p \in shown THEN 1 ELSE 0]
  /\ wsPageL = [p \in Pages |-> IF p \in shown THEN 1 ELSE 0]
  /\ wsShared = [p \in Pages |-> p \in shown]
  /\ nextSeq = 1
  /\ navs = [k \in Kinds |-> [p \in Pages |-> 0]]
  /\ wrapped = [k \in Kinds |-> [p \in Pages |-> FALSE]]
  /\ produced = [k \in Kinds |-> [p \in Pages |-> {}]]
  /\ last = Op("init", "-", "-", "-")

\* The browser shows one page when the server starts.
CollectorsStart == StartWith({"p1"})

\* A run exercises one collector for one page.
CollectorsInit ==
  /\ focus \in [kind : Kinds, page : Pages]
  /\ CollectorsStart

\* The collectors share no state, and neither do the pages of one collector:
\* a run delivers the events of one collector for one page.  The other
\* collectors still see that page's navigations and McpContext.newPage.
Focused(k, p) == focus = [kind |-> k, page |-> p]

\* A run that exercises a page opened later starts with the first page
\* collecting items of its own (console messages or requests).
Attended(k, p) ==
  \/ Focused(k, p)
  \/ /\ focus = [kind |-> k, page |-> "p2"]
     /\ p = "p1"
     /\ pageState["p2"] = "absent"

\* The first page, tracked by init(), carries the volume of events; a page
\* opened later goes through every way of tracking and untracking and
\* carries fewer events.
ItemBudget(k, p) ==
  IF ~Focused(k, p) THEN OtherItems
  ELSE IF p # "p1" THEN LateItems
  ELSE IF k = "websocket" THEN MaxConnections ELSE MaxItems

NavBudget(p) == IF p = "p1" THEN MaxNavs ELSE LateNavs

\* ------------------------------------------------- track
\* An #initializePage without its storage.has(page) guard.
initializePageUnguarded(ks, p) ==
  /\ hasStorage' = [k \in GenericKinds |->
       IF k \in ks THEN [hasStorage[k] EXCEPT ![p] = TRUE] ELSE hasStorage[k]]
  /\ storage' = [k \in GenericKinds |->
       IF k \in ks THEN [storage[k] EXCEPT ![p] = << <<>> >>] ELSE storage[k]]
  /\ idGen' = [k \in GenericKinds |->
       IF k \in ks THEN [idGen[k] EXCEPT ![p] = createIdGenerator]
       ELSE idGen[k]]
  /\ listeners' = [k \in GenericKinds |->
       IF k \in ks THEN [listeners[k] EXCEPT ![p] = @ + 1] ELSE listeners[k]]

\* An #initializePage that starts every tracked page of the collector anew.
initializePageEveryPage(ks, p) ==
  LET fresh(k) == k \in ks /\ ~hasStorage[k][p] IN
  /\ hasStorage' = [k \in GenericKinds |->
       IF fresh(k) THEN [hasStorage[k] EXCEPT ![p] = TRUE] ELSE hasStorage[k]]
  /\ storage' = [k \in GenericKinds |->
       IF fresh(k)
       THEN [q \in Pages |->
               IF q = p \/ hasStorage[k][q] THEN << <<>> >>
               ELSE storage[k][q]]
       ELSE storage[k]]
  /\ idGen' = [k \in GenericKinds |->
       IF fresh(k) THEN [idGen[k] EXCEPT ![p] = createIdGenerator]
       ELSE idGen[k]]
  /\ listeners' = [k \in GenericKinds |->
       IF fresh(k) THEN [listeners[k] EXCEPT ![p] = @ + 1] ELSE listeners[k]]

\* PageCollector.#initializePage(page) in each generic collector of ks.
initializePage(ks, p) ==
  LET fresh(k) == k \in ks /\ ~hasStorage[k][p] IN
  /\ hasStorage' = [k \in GenericKinds |->
       IF fresh(k) THEN [hasStorage[k] EXCEPT ![p] = TRUE] ELSE hasStorage[k]]
  /\ storage' = [k \in GenericKinds |->
       IF fresh(k) THEN [storage[k] EXCEPT ![p] = << <<>> >>] ELSE storage[k]]
  /\ idGen' = [k \in GenericKinds |->
       IF fresh(k) THEN [idGen[k] EXCEPT ![p] = createIdGenerator]
       ELSE idGen[k]]
  /\ listeners' = [k \in GenericKinds |->
       IF fresh(k) THEN [listeners[k] EXCEPT ![p] = @ + 1] ELSE listeners[k]]

\* NetworkCollector.#setupInitiatorCollection(page); throws: page._client()
\* raises, after the two maps were set.
setupInitiatorCollection(p, throws) ==
  IF hasInitiators[p] THEN UNCHANGED netVars
  ELSE /\ hasInitiators' = [hasInitiators EXCEPT ![p] = TRUE]
       /\ initiators' = [initiators EXCEPT ![p] = EmptyMap]
       /\ netCdp' = [netCdp EXCEPT ![p] = IF throws THEN @ ELSE @ + 1]
       /\ netRegistered' = [netRegistered EXCEPT ![p] = ~throws]

\* WebSocketCollector.addPage(page) with #setupCdpListeners; throws:
\* page._client() raises, before any listener is registered.
wsAddPage(p, throws) ==
  IF wsHasStorage[p] THEN UNCHANGED wsVars
  ELSE /\ wsIdGen' = [wsIdGen EXCEPT ![p] = wsCreateIdGenerator]
       /\ wsStorage' = [wsStorage EXCEPT ![p] = << <<>> >>]
       /\ wsHasStorage' = [wsHasStorage EXCEPT ![p] = TRUE]
       /\ connectionMap' = [connectionMap EXCEPT ![p] = EmptyMap]
       /\ IF throws
          THEN /\ wsShared' = [wsShared EXCEPT ![p] = FALSE]
               /\ UNCHANGED <<handlerMap, wsCdp, wsPageL, wsHasCdp>>
          ELSE /\ handlerMap' = [handlerMap EXCEPT ![p] = EmptyMap]
               /\ wsCdp' = [wsCdp EXCEPT ![p] = @ + 1]
               /\ wsPageL' = [wsPageL EXCEPT ![p] = @ + 1]
               /\ wsHasCdp' = [wsHasCdp EXCEPT ![p] = TRUE]
               /\ wsShared' = [wsShared EXCEPT ![p] = TRUE]

\* addPage(page) of the collector of kind k.
addPage(k, p, throws) ==
  /\ IF k \in GenericKinds THEN initializePage({k}, p)
     ELSE UNCHANGED genericVars
  /\ IF k = "network" THEN setupInitiatorCollection(p, throws)
     ELSE UNCHANGED netVars
  /\ IF k = "websocket" THEN wsAddPage(p, throws) ELSE UNCHANGED wsVars

\* page._client() can raise only once the page's session is gone.
ClientMayThrow(p) == IF pageState[p] = "closed" THEN BOOLEAN ELSE {FALSE}

\* ------------------------------------------------- browser and McpContext
\* The browser opens a page: targetcreated reaches the three collectors,
\* whose handlers await target.page(); viaMcp: McpContext.newPage opened it.
OpenPage(p, viaMcp) ==
  /\ focus.page = p
  /\ pageState[p] = "absent"
  /\ pageState' = [pageState EXCEPT ![p] = "alive"]
  /\ pendingCreated' = [k \in Kinds |-> [pendingCreated[k] EXCEPT ![p] = TRUE]]
  /\ newPagePending' = [newPagePending EXCEPT ![p] = viaMcp]
  /\ last' = Op("openPage", "-", p, "-")
  /\ UNCHANGED <<focus, pendingDestroyed, genericVars, netVars, wsVars,
                 ghostVars>>

\* #onTargetCreated after its await: addPage(page).
OnTargetCreated(k, p, throws) ==
  /\ Focused(k, p)
  /\ pendingCreated[k][p]
  /\ throws \in ClientMayThrow(p)
  /\ pendingCreated' = [pendingCreated EXCEPT ![k][p] = FALSE]
  /\ addPage(k, p, throws)
  /\ last' = Op("addPage", k, p, "-")
  /\ UNCHANGED <<focus, pageState, pendingDestroyed, newPagePending,
                 ghostVars>>

\* ------------------------------------------------- DebuggerContext
\* A call of a DebuggerContext method that has ended: its name, how it ended
\* and the client it sent its command to ("-" when it sent nothing).
Called(op, result, sent) == [op |-> op, result |-> result, sent |-> sent]

\* The fields of a DebuggerContext after construction.
DebuggerContextNew ==
  [client |-> "none", enabled |-> FALSE, isPaused |-> FALSE,
   scripts |-> {}, breakpoints |-> {}]

\* A call of #initDebugger or reinitDebugger that waits for the response to
\* the command it sent last, or (pc "collectors") #init before it reaches
\* #initDebugger.  dbgTasks lists the calls in the order of their last send:
\* a protocol client answers its commands in the order they were sent.
Task(pc, client, init) == [pc |-> pc, client |-> client, init |-> init]

\* What enable, disable and their callers read and write.
World ==
  [ctx |-> debuggerContext, on |-> dbgListeners, tasks |-> dbgTasks,
   since |-> attached]

\* EventEmitter.off takes one registration of the handler away, if any.
off(n) == IF n > 0 THEN n - 1 ELSE 0

\* DebuggerContext.enable(client) up to its first await: the early return,
\* else the client is kept, the scripts are cleared, the three listeners are
\* registered and Debugger.enable is sent.
enable(m, client, init) ==
  IF m.ctx.enabled /\ m.ctx.client = client THEN m
  ELSE [ctx |-> [m.ctx EXCEPT !.client = client, !.scripts = {}],
        on |-> [m.on EXCEPT ![client] = @ + 1],
        tasks |-> Append(m.tasks, Task("enableSent", client, init)),
        since |-> IF m.ctx.client = client THEN m.since ELSE "none"]

\* McpContext.#initDebugger: enable on the client of the selected page.
initDebugger(m, page, init) == enable(m, page, init)

\* DebuggerContext.disable() up to its await, behind its guard: the three
\* listeners are taken off the kept client and Debugger.disable is sent.
disable(m) ==
  [m EXCEPT !.on[m.ctx.client] = off(@),
            !.tasks = Append(@, Task("disableSent", m.ctx.client, FALSE))]

\* The rest of disable(), once Debugger.disable has been answered.
disableFinish(ctx) ==
  [ctx EXCEPT !.scripts = {}, !.breakpoints = {}, !.isPaused = FALSE,
              !.enabled = FALSE, !.client = "none"]

\* McpContext.reinitDebugger up to its first protocol command: when disable
\* returns at its guard, #initDebugger follows before anything else runs.
reinitDebugger(m, page) ==
  IF ~m.ctx.enabled \/ m.ctx.client = "none"
  THEN initDebugger(m, page, FALSE)
  ELSE disable(m)

\* McpContext.from has resolved: #init is not in flight.
InitDone == \A i \in 1..Len(dbgTasks) : ~dbgTasks[i].init

\* The registrations there are, and those the calls in flight may still make.
Registrations ==
  LET Sum[ps \in SUBSET Pages] ==
        IF ps = {} THEN 0
        ELSE LET q == CHOOSE x \in ps : TRUE
             IN  dbgListeners[q] + Sum[ps \ {q}]
  IN  Sum[Pages] + Cardinality({i \in 1..Len(dbgTasks) :
                      dbgTasks[i].pc \in {"disableSent", "collectors"}})

\* The world m becomes the state.
Becomes(m) ==
  /\ debuggerContext' = m.ctx
  /\ dbgListeners' = m.on
  /\ dbgTasks' = m.tasks
  /\ attached' = m.since

\* McpContext.selectPage(newPage) on an open page: the page is selected and
\* reinitDebugger is started without being awaited.
selectPage(newPage) ==
  /\ selectedPage' = newPage
  /\ Becomes(reinitDebugger(World, newPage))
  /\ UNCHANGED <<cdpDebugger, dbgLast>>

\* McpContext.newPage after its awaits: selectPage(page) assigns the page and
\* raises in getSelectedPage when the page is closed already, else
\* reinitDebugger is started and the three addPage calls run.
NewPage(p) ==
  /\ newPagePending[p]
  /\ newPagePending' = [newPagePending EXCEPT ![p] = FALSE]
  /\ IF pageState[p] = "alive"
     THEN /\ selectPage(p)
          /\ initializePage(GenericKinds, p)
          /\ setupInitiatorCollection(p, FALSE)
          /\ wsAddPage(p, FALSE)
          /\ last' = Op("addPage", "all", p, "-")
     ELSE /\ selectedPage' = p
          /\ UNCHANGED <<dbgTasks, dbgVars, genericVars, netVars, wsVars>>
          /\ last' = Op("newPageFailed", "-", p, "-")
  /\ UNCHANGED <<focus, pageState, pendingCreated, pendingDestroyed,
                 ghostVars>>

\* The page goes away: targetdestroyed reaches the three collectors.
ClosePage(p) ==
  /\ focus.page = p
  /\ p # "p1"
  /\ pageState[p] = "alive"
  /\ pageState' = [pageState EXCEPT ![p] = "closed"]
  /\ pendingDestroyed' =
       [k \in Kinds |-> [pendingDestroyed[k] EXCEPT ![p] = TRUE]]
  /\ last' = Op("closePage", "-", p, "-")
  /\ UNCHANGED <<focus, pendingCreated, newPagePending, genericVars, netVars,
                 wsVars, ghostVars>>


\* ------------------------------------------------- untrack
\* A clean-up that takes the listeners off and forgets storage.delete(page).
cleanupPageDestroyedKeepStorage(k, p) ==
  /\ listeners' = [listeners EXCEPT ![k][p] = 0]
  /\ UNCHANGED <<hasStorage, storage, idGen>>

\* PageCollector.cleanupPageDestroyed(page): page.off for the listener map,
\* storage.delete(page).
cleanupPageDestroyed(k, p) ==
  /\ listeners' = [listeners EXCEPT ![k][p] = 0]
  /\ hasStorage' = [hasStorage EXCEPT ![k][p] = FALSE]
  /\ storage' = [storage EXCEPT ![k][p] = <<>>]
  /\ idGen' = [idGen EXCEPT ![k][p] = 0]

\* The rest of NetworkCollector.cleanupPageDestroyed; throws: page._client()
\* raises inside the try.
networkCleanup(p, throws) ==
  /\ netCdp' = [netCdp EXCEPT ![p] =
       IF hasInitiators[p] /\ netRegistered[p] /\ ~throws THEN @ - 1 ELSE @]
  /\ netRegistered' = [netRegistered EXCEPT ![p] = FALSE]
  /\ hasInitiators' = [hasInitiators EXCEPT ![p] = FALSE]
  /\ initiators' = [initiators EXCEPT ![p] = EmptyMap]

\* WebSocketCollector.#cleanupPage(page); throws: page._client() raises
\* inside the try.  The framenavigated listener is not taken off the page.
wsCleanupPage(p, throws) ==
  /\ wsCdp' = [wsCdp EXCEPT ![p] =
       IF wsHasCdp[p] /\ ~throws THEN @ - 1 ELSE @]
  /\ handlerMap' = [handlerMap EXCEPT ![p] =
       IF wsHasCdp[p] /\ throws THEN @ ELSE EmptyMap]
  /\ wsHasCdp' = [wsHasCdp EXCEPT ![p] = FALSE]
  /\ wsHasStorage' = [wsHasStorage EXCEPT ![p] = FALSE]
  /\ wsStorage' = [wsStorage EXCEPT ![p] = <<>>]
  /\ connectionMap' = [connectionMap EXCEPT ![p] = EmptyMap]
  /\ wsIdGen' = [wsIdGen EXCEPT ![p] = 0]
  /\ wsShared' = [wsShared EXCEPT ![p] = FALSE]
  /\ UNCHANGED wsPageL

\* #onTargetDestroyed after its await: the collector's clean-up.
OnTargetDestroyed(k, p, throws) ==
  /\ Focused(k, p)
  /\ pendingDestroyed[k][p]
  /\ throws \in ClientMayThrow(p)
  /\ pendingDestroyed' = [pendingDestroyed EXCEPT ![k][p] = FALSE]
  /\ IF k \in GenericKinds THEN cleanupPageDestroyed(k, p)
     ELSE UNCHANGED genericVars
  /\ IF k = "network" THEN networkCleanup(p, throws) ELSE UNCHANGED netVars
  /\ IF k = "websocket" THEN wsCleanupPage(p, throws) ELSE UNCHANGED wsVars
  /\ navs' = [navs EXCEPT ![k][p] = 0]
  /\ wrapped' = [wrapped EXCEPT ![k][p] = FALSE]
  /\ produced' = [produced EXCEPT ![k][p] = {}]
  /\ last' = Op("cleanup", k, p,
                 IF throws /\ \/ k = "network" /\ hasInitiators[p]
                              \/ k = "websocket" /\ wsHasCdp[p]
                 THEN "clientGone" ELSE "-")
  /\ UNCHANGED <<focus, pageState, pendingCreated, newPagePending, nextSeq>>

\* ------------------------------------------------- item events
\* A live page emits an event the collector of kind k listens to (console,
\* pageerror, issue; request): the collector callback runs.
Collect(k, p, mainFrame, isNavigationRequest) ==
  /\ Attended(k, p)
  /\ ~Focused(k, p) => ~mainFrame /\ ~isNavigationRequest
  /\ pageState[p] = "alive"
  /\ listeners[k][p] > 0
  /\ Cardinality(produced[k][p]) < ItemBudget(k, p)
  /\ LET item == [seq |-> nextSeq, ep |-> navs[k][p], id |-> -1,
                  mainFrame |-> mainFrame,
                  isNavigationRequest |-> isNavigationRequest]
     IN  /\ storage' = [storage EXCEPT
                          ![k][p] = collect(@, idGen[k][p], item)]
         /\ produced' = [produced EXCEPT ![k][p] =
                           @ \cup {[seq |-> nextSeq, ep |-> navs[k][p],
                                     id |-> idGenerator(idGen[k][p]).value]}]
  /\ idGen' = [idGen EXCEPT ![k][p] = idGenerator(@).next]
  /\ wrapped' = [wrapped EXCEPT ![k][p] = @ \/ idGen[k][p] = MaxSafeInteger]
  /\ nextSeq' = nextSeq + 1
  /\ last' = Op("collect", k, p, "-")
  /\ UNCHANGED <<focus, browserVars, hasStorage, listeners, netVars, wsVars,
                 navs>>

\* Network.requestWillBeSent with an initiator reaches onRequestWillBeSent.
RequestWillBeSent(p, r) ==
  /\ Focused("network", p)
  /\ pageState[p] = "alive"
  /\ netCdp[p] > 0
  /\ initiators' = [initiators EXCEPT ![p] =
       [x \in DOMAIN @ \cup {r} |-> TRUE]]
  /\ last' = Op("requestWillBeSent", "network", p, r)
  /\ UNCHANGED <<focus, browserVars, genericVars, hasInitiators, netCdp,
                 netRegistered, wsVars, ghostVars>>

\* ------------------------------------------------- WebSocket events
WsLive(p) ==
  /\ Focused("websocket", p) \/ focus.kind = "tools"
  /\ pageState[p] = "alive"
  /\ wsCdp[p] > 0

\* The record the handlers' map holds for requestId r, as the epoch list
\* shows it: <<>> when the map has no entry or the record was evicted.
held(p, r) ==
  IF r \notin DOMAIN handlerMap[p] THEN <<>>
  ELSE LET all == Flatten(wsStorage[p])
       IN  SelectSeq(all, LAMBDA ws : ws.seq = handlerMap[p][r])

RECURSIVE sumFrames(_)
sumFrames(all) ==
  IF all = <<>> THEN 0 ELSE Len(Head(all).frames) + sumFrames(Tail(all))

frameCount(p) == sumFrames(Flatten(wsStorage[p]))

FrameBudget(p) == IF p = "p1" THEN MaxFrames ELSE LateFrames

\* The connections and frames collected on all pages: a run that exercises
\* the tools delivers a few WebSocket events in all.
toolEvents ==
  LET S == {<<p, Cardinality(produced["websocket"][p]) + frameCount(p)>> :
              p \in Pages}
      sum[T \in SUBSET S] ==
        IF T = {} THEN 0
        ELSE LET x == CHOOSE x \in T : TRUE IN x[2] + sum[T \ {x}]
  IN  sum[S]
ToolBudget == focus.kind = "tools" => toolEvents < ToolEvents

\* Network.webSocketCreated reaches onCreated.
WebSocketCreated(p, r) ==
  /\ WsLive(p)
  /\ ToolBudget
  /\ Cardinality(produced["websocket"][p]) < ItemBudget("websocket", p)
  /\ handlerMap' = [handlerMap EXCEPT
                      ![p] = registerConnection(@, r, nextSeq)]
  /\ connectionMap' = [connectionMap EXCEPT ![p] =
       IF wsShared[p] THEN registerConnection(@, r, nextSeq) ELSE @]
  /\ wsStorage' = [wsStorage EXCEPT ![p] =
       IF wsHasStorage[p]
       THEN [@ EXCEPT ![1] = Append(@, wsData(nextSeq, navs["websocket"][p],
                                              wsIdGen[p], r))]
       ELSE @]
  /\ wsIdGen' = [wsIdGen EXCEPT ![p] = wsIdGenerator(@).next]
  /\ wrapped' = [wrapped EXCEPT
                   !["websocket"][p] = @ \/ wsIdGen[p] = MaxSafeInteger]
  /\ produced' = [produced EXCEPT !["websocket"][p] =
       @ \cup {[seq |-> nextSeq, ep |-> navs["websocket"][p],
                 id |-> wsIdGenerator(wsIdGen[p]).value]}]
  /\ nextSeq' = nextSeq + 1
  /\ last' = Op("created", "websocket", p, r)
  /\ UNCHANGED <<focus, browserVars, genericVars, netVars, wsHasStorage,
                 wsHasCdp, wsCdp, wsPageL, wsShared, navs>>

FrameEvents ==
  {[timestamp |-> 1, opcode |-> 1, payloadData |-> <<116, 101, 120, 116>>]}

\* Network.webSocketFrameSent / webSocketFrameReceived reach onFrameSent /
\* onFrameReceived.
WebSocketFrame(p, r, direction, event) ==
  /\ WsLive(p)
  /\ held(p, r) # <<>> => frameCount(p) < FrameBudget(p) /\ ToolBudget
  /\ wsStorage' = [wsStorage EXCEPT ![p] =
       onFrame(@, handlerMap[p], r, direction, event)]
  /\ last' = Op(direction, "websocket", p, r)
  /\ UNCHANGED <<focus, browserVars, genericVars, netVars, wsHasStorage,
                 wsIdGen, connectionMap, handlerMap, wsHasCdp, wsCdp, wsPageL,
                 wsShared, ghostVars>>

\* Network.webSocketClosed reaches onClosed.
WebSocketClosed(p, r, timestamp) ==
  /\ WsLive(p)
  /\ wsStorage' = [wsStorage EXCEPT ![p] =
       onClosed(@, handlerMap[p], r, timestamp)]
  /\ last' = Op("closed", "websocket", p, r)
  /\ UNCHANGED <<focus, browserVars, genericVars, netVars, wsHasStorage,
                 wsIdGen, connectionMap, handlerMap, wsHasCdp, wsCdp, wsPageL,
                 wsShared, ghostVars>>

\* ------------------------------------------------- navigation
\* A listener that takes every frame for the main frame.
isAnyFrame(frame) == TRUE

\* The listeners' test frame !== page.mainFrame(), negated.
isMainFrame(frame) == frame = "main"

\* The page emits framenavigated: every listener the collectors registered
\* for it runs, and each one that sees the main frame rotates.
FrameNavigated(p, frame) ==
  /\ focus.page = p
  /\ pageState[p] = "alive"
  /\ \/ \E k \in GenericKinds : listeners[k][p] > 0
     \/ wsPageL[p] > 0
  /\ \A k \in Kinds : navs[k][p] < NavBudget(p)
  /\ last' = Op("framenavigated", "-", p, frame)
  /\ IF isMainFrame(frame)
     THEN /\ storage' = [k \in GenericKinds |-> [storage[k] EXCEPT ![p] =
                IF hasStorage[k][p] THEN splitN(k, @, listeners[k][p])
                ELSE @]]
          /\ initiators' = [initiators EXCEPT ![p] =
                IF listeners["network"][p] > 0 /\ hasInitiators[p]
                THEN clearInitiators(@) ELSE @]
          /\ wsStorage' = [wsStorage EXCEPT ![p] =
                IF wsHasStorage[p] THEN wsSplitN(@, wsPageL[p]) ELSE @]
          /\ connectionMap' = [connectionMap EXCEPT ![p] =
                IF wsHasStorage[p] /\ wsPageL[p] > 0 THEN EmptyMap ELSE @]
          /\ wsShared' = [wsShared EXCEPT ![p] =
                IF wsHasStorage[p] /\ wsPageL[p] > 0 THEN FALSE ELSE @]
          /\ navs' = [k \in Kinds |-> [navs[k] EXCEPT ![p] =
                IF k = "websocket"
                THEN (IF wsHasStorage[p] THEN @ + wsPageL[p] ELSE @)
                ELSE (IF hasStorage[k][p] THEN @ + listeners[k][p] ELSE @)]]
     ELSE UNCHANGED <<storage, initiators, wsStorage, connectionMap, navs,
                      wsShared>>
  /\ UNCHANGED <<focus, browserVars, hasStorage, idGen, listeners,
                 hasInitiators, netCdp, netRegistered, wsHasStorage, wsIdGen,
                 handlerMap, wsHasCdp, wsCdp, wsPageL, nextSeq, wrapped,
                 produced>>

\* ------------------------------------------------- frame lists analysed
\* WebSocketFrame objects as the collector stores them.
wsFrame(direction, opcode, payloadData) ==
  [direction |-> direction, timestamp |-> 0,
   opcode |-> opcode, payloadData |-> payloadData]

\* The frames of a list carry the times of their arrival, in order.
stamped(frames) ==
  [i \in 1..Len(frames) |-> [frames[i] EXCEPT !.timestamp = i]]

\* "H4sIAA==": the base64 of the bytes 1f 8b 08 00.
GzipShort == <<72, 52, 115, 73, 65, 65, 61, 61>>
\* "H4sI" and 32 times "A": the base64 of 1f 8b 08 and 24 zero bytes.
GzipLong == [i \in 1..36 |-> IF i <= 4 THEN GzipShort[i] ELSE 65]

GzipSamples ==
  { wsFrame("received", 2, GzipShort), wsFrame("received", 2, GzipLong) }

FpSamples ==
  GzipSamples \cup
  { wsFrame("sent", 2, GzipShort),
    wsFrame("sent", 1, <<112, 105, 110, 103>>),       \* ping
    wsFrame("received", 1, <<123, 34, 97, 34>>) }     \* {"a"

\* k text frames "!A", "!B", ...: k different fingerprints.
DistinctFrames(k) == [i \in 1..k |-> wsFrame("sent", 1, <<33, 64 + i>>)]

SeqsUpTo(S, n) == UNION {[1..m -> S] : m \in 0..n}

FpInputs ==
  { stamped(frames) :
      frames \in SeqsUpTo(FpSamples, MaxFpFrames)
                   \cup { before \o gzip \o after :
                            before \in SeqsUpTo(FpSamples, 1),
                            gzip \in [1..GzipFrames -> GzipSamples],
                            after \in SeqsUpTo(FpSamples, 1) }
                   \cup {DistinctFrames(k) : k \in 1..MaxGroups} }

\* No frame list has been analysed.
\* ------------------------------------------------- command line (cli.ts)
\* An option's value: undefined, or a string.
undefined == <<>>

Some(text) == << text >>

\* !value of JavaScript: undefined and the empty string are falsy.
falsy(value) == value = undefined \/ value = Some("")

\* The strings new URL() accepts among those tried, and their protocol.
UrlProtocol ==
  [x \in {"http://localhost:3000", "ws://127.0.0.1:9222/devtools/browser/abc",
          "wss://host/devtools/browser/abc"} |->
     IF x = "http://localhost:3000" THEN "http:"
     ELSE IF x = "wss://host/devtools/browser/abc" THEN "wss:" ELSE "ws:"]

\* coerce of browserUrl: undefined for a falsy value, an error for what is
\* no URL; [ok, value].
coerceBrowserUrl(url) ==
  IF falsy(url) THEN [ok |-> TRUE, value |-> undefined]
  ELSE IF url[1] \notin DOMAIN UrlProtocol THEN [ok |-> FALSE, value |-> undefined]
  ELSE [ok |-> TRUE, value |-> url]

\* coerce of wsEndpoint: as browserUrl, and the protocol must be ws: or wss:.
coerceWsEndpoint(url) ==
  IF falsy(url) THEN [ok |-> TRUE, value |-> undefined]
  ELSE IF url[1] \notin DOMAIN UrlProtocol THEN [ok |-> FALSE, value |-> undefined]
  ELSE IF UrlProtocol[url[1]] \notin {"ws:", "wss:"}
  THEN [ok |-> FALSE, value |-> undefined]
  ELSE [ok |-> TRUE, value |-> url]

channelChoices == {"stable", "canary", "beta", "dev"}

\* The conflicts declared by cliOptions: no two of the options of a pair
\* may both be defined.
conflicting(args) ==
  \/ args.browserUrl # undefined /\ args.wsEndpoint # undefined
  \/ /\ args.executablePath # undefined
     /\ args.browserUrl # undefined \/ args.wsEndpoint # undefined
  \/ /\ args.channel # undefined
     /\ \/ args.browserUrl # undefined
        \/ args.wsEndpoint # undefined
        \/ args.executablePath # undefined

\* A check that forgets the executable path.
checkWithoutExecutablePath(args) ==
  IF falsy(args.channel) /\ falsy(args.browserUrl) /\ falsy(args.wsEndpoint)
  THEN [args EXCEPT !.channel = Some("stable")]
  ELSE args

\* The .check() callback of parseArguments.
check(args) ==
  IF /\ falsy(args.channel)
     /\ falsy(args.browserUrl)
     /\ falsy(args.wsEndpoint)
     /\ falsy(args.executablePath)
  THEN [args EXCEPT !.channel = Some("stable")]
  ELSE args

\* The options after coercion.
coerced(argv) ==
  [channel |-> argv.channel,
   browserUrl |-> coerceBrowserUrl(argv.browserUrl).value,
   wsEndpoint |-> coerceWsEndpoint(argv.wsEndpoint).value,
   executablePath |-> argv.executablePath]

\* parseArguments: the options are coerced and validated, then checked;
\* [ok, args], ok FALSE when yargs fails.
parseArguments(argv) ==
  IF \/ ~coerceBrowserUrl(argv.browserUrl).ok
     \/ ~coerceWsEndpoint(argv.wsEndpoint).ok
     \/ argv.channel # undefined /\ argv.channel[1] \notin channelChoices
     \/ conflicting(coerced(argv))
  THEN [ok |-> FALSE, args |-> coerced(argv)]
  ELSE [ok |-> TRUE, args |-> check(coerced(argv))]

NoOptions ==
  [channel |-> undefined, browserUrl |-> undefined,
   wsEndpoint |-> undefined, executablePath |-> undefined]

\* Command lines tried.
CliInputs ==
  [channel : {undefined, Some(""), Some("nightly")}
               \cup {Some(x) : x \in channelChoices},
   browserUrl : {undefined, Some(""), Some("http://localhost:3000"),
                 Some("localhost")},
   wsEndpoint : {undefined, Some(""),
                 Some("ws://127.0.0.1:9222/devtools/browser/abc"),
                 Some("wss://host/devtools/browser/abc"),
                 Some("http://localhost:3000"), Some("localhost")},
   executablePath : {undefined, Some(""), Some("/tmp/test 123/chrome")}]

\* main.ts has parsed a command line without options.
CliParsed == cliArgv = NoOptions /\ cliArgs = << parseArguments(NoOptions) >>

\* McpContext.#init has selected the first page, and no call that attaches
\* the debugger is in flight.
McpStart ==
  /\ selectedPage = "p1"
  /\ dbgTasks = <<>>
  /\ debuggerContext =
       [DebuggerContextNew EXCEPT !.client = "p1", !.enabled = TRUE]
  /\ dbgListeners = [p \in Pages |-> IF p = "p1" THEN 1 ELSE 0]
  /\ cdpDebugger = [p \in Pages |-> p = "p1"]
  /\ dbgLast = Called("-", "-", "-")
  /\ attached = "none"

\* Nothing is cached.
CacheEmpty ==
  /\ trafficSummaryCache = EmptyMap
  /\ cachedFrom = EmptyMap

\* No tool call has been made.
ToolsIdle ==
  /\ toolPc = [c \in Calls |-> "idle"]
  /\ toolMutex = [locked |-> FALSE, acquirers |-> <<>>]
  /\ toolResult = [c \in Calls |-> "-"]

Init ==
  /\ CollectorsInit
  /\ fpFrames = <<>>
  /\ fpSummaries = <<>>
  /\ ToolsIdle
  /\ McpStart
  /\ CacheEmpty
  /\ CliParsed

\* A tool is about to analyse the frames of a connection.
FpInit ==
  /\ CollectorsInit
  /\ focus = [kind |-> "websocket", page |-> "p1"]
  /\ fpFrames \in FpInputs
  /\ fpSummaries = <<>>
  /\ ToolsIdle
  /\ McpStart
  /\ CacheEmpty
  /\ CliParsed

\* An analysis that sorts the list it is given in place.
AnalyzeFramesInPlace ==
  /\ Len(fpSummaries) < MaxAnalyses
  /\ fpSummaries' =
       Append(fpSummaries, analyzeWebSocketFramesV2(fpFrames, 1, "ws://host"))
  /\ fpFrames' = Reverse(fpFrames)
  /\ UNCHANGED besideFp

\* A call analyzeWebSocketFramesV2(ws.frames, wsid, ws.connection.url).
AnalyzeFrames ==
  /\ Len(fpSummaries) < MaxAnalyses
  /\ fpSummaries' =
       Append(fpSummaries, analyzeWebSocketFramesV2(fpFrames, 1, "ws://host"))
  /\ fpFrames' = fpFrames
  /\ UNCHANGED besideFp

\* ------------------------------------------------- the system
Track == \E k \in Kinds, p \in Pages, throws \in BOOLEAN :
            OnTargetCreated(k, p, throws)
    /\ UNCHANGED <<mcpVars, besideCollectors>>
Untrack == \E k \in Kinds, p \in Pages, throws \in BOOLEAN :
              OnTargetDestroyed(k, p, throws)
    /\ UNCHANGED <<mcpVars, besideCollectors>>
Open == \E p \in Pages, viaMcp \in BOOLEAN : OpenPage(p, viaMcp)
    /\ UNCHANGED <<mcpVars, besideCollectors>>
TrackNewPage == \E p \in Pages : NewPage(p)
    /\ UNCHANGED besideCollectors
Close == \E p \in Pages : ClosePage(p)
    /\ UNCHANGED <<mcpVars, besideCollectors>>
ConsoleEvent == \E p \in Pages : Collect("console", p, FALSE, FALSE)
    /\ UNCHANGED <<mcpVars, besideCollectors>>
RequestEvent == \E p \in Pages, mainFrame \in BOOLEAN, isNav \in BOOLEAN :
                   Collect("network", p, mainFrame, isNav)
    /\ UNCHANGED <<mcpVars, besideCollectors>>
InitiatorEvent == \E p \in Pages, r \in InitiatorIds : RequestWillBeSent(p, r)
    /\ UNCHANGED <<mcpVars, besideCollectors>>
CreatedEvent == \E p \in Pages, r \in RequestIds : WebSocketCreated(p, r)
    /\ UNCHANGED <<mcpVars, besideCollectors>>
FrameEvent == \E p \in Pages, r \in RequestIds,
                 direction \in {"sent", "received"}, event \in FrameEvents :
                 WebSocketFrame(p, r, direction, event)
    /\ UNCHANGED <<mcpVars, besideCollectors>>
ClosedEvent == \E p \in Pages, r \in RequestIds, t \in Timestamps :
                  WebSocketClosed(p, r, t)
    /\ UNCHANGED <<mcpVars, besideCollectors>>
Navigation == \E p \in Pages, frame \in Frames : FrameNavigated(p, frame)
    /\ UNCHANGED <<mcpVars, besideCollectors>>

Next ==
  \/ Open \/ Track \/ TrackNewPage \/ Close \/ Untrack
  \/ ConsoleEvent \/ RequestEvent \/ InitiatorEvent
  \/ CreatedEvent \/ FrameEvent \/ ClosedEvent
  \/ Navigation

Spec == Init /\ [][Next]_vars

FpNext == AnalyzeFrames

FpSpec == FpInit /\ [][FpNext]_vars

\* ------------------------------------------------- WebSocket tools
\* McpContext.cacheTrafficSummary that keeps the entry a wsid has already.
cacheTrafficSummaryKeepFirst(cache, wsid, summary) ==
  [w \in DOMAIN cache \cup {wsid} |->
     IF w \in DOMAIN cache THEN cache[w] ELSE summary]

\* McpContext.cacheTrafficSummary: #trafficSummaryCache.set(wsid, summary).
cacheTrafficSummary(cache, wsid, summary) ==
  [w \in DOMAIN cache \cup {wsid} |-> IF w = wsid THEN summary ELSE cache[w]]

\* McpContext.getCachedTrafficSummary: #trafficSummaryCache.get(wsid).
getCachedTrafficSummary(cache, wsid) ==
  IF wsid \in DOMAIN cache THEN << cache[wsid] >> ELSE undefined

\* frames.filter(f => f.direction === request.params.direction), applied
\* when a direction is given.
filterDirection(frames, direction) ==
  IF direction = undefined THEN frames
  ELSE SelectSeq(frames, LAMBDA f : f.direction = direction[1])

\* String.prototype.toUpperCase on a group id.
toUpperCase(str) ==
  [i \in 1..Len(str) |->
     IF str[i] = "a" THEN "A" ELSE IF str[i] = "b" THEN "B" ELSE str[i]]

\* request.params.pageSize ?? 10, with pageIdx 0.
pageSize == 10

\* The frame indices formatGroupMessages prints: the first page of the
\* indices, without those the frame list has no frame for.
formatGroupMessages(frames, indices) ==
  SelectSeq(Take(indices, pageSize), LAMBDA idx : idx < Len(frames))

\* McpContext.getWebSocketById: the selected page must be open.
getWebSocketById(wsid) ==
  IF pageState[selectedPage] # "alive"
  THEN [ok |-> FALSE, error |-> "The selected page has been closed"]
  ELSE wsGetById(selectedPage, wsid)

\* Every connection of the model was opened to this URL.
ConnectionUrl == "ws://host"

\* The handler of analyze_websocket_messages(wsid, direction): what it
\* analysed and reported, and the cache it leaves; ok FALSE when it raised.
analyzeWebSocketMessages(wsid, direction) ==
  LET ws == getWebSocketById(wsid) IN
  IF ~ws.ok
  THEN [ok |-> FALSE, cache |-> trafficSummaryCache]
  ELSE LET frames == filterDirection(ws.item.frames, direction)
           summary == analyzeWebSocketFramesV2(frames, wsid, ConnectionUrl)
       IN  [ok |-> TRUE, seq |-> ws.item.seq, analysed |-> frames,
            summary |-> summary,
            cache |-> cacheTrafficSummary(trafficSummaryCache, wsid, summary)]

\* The handler of get_websocket_messages(wsid, direction, groupId) with a
\* groupId: the summary it used, the frame indices it listed of ws.frames,
\* and the cache it leaves; ok FALSE when it raised.
getWebSocketMessages(wsid, direction, groupId) ==
  LET ws == getWebSocketById(wsid) IN
  IF ~ws.ok
  THEN [ok |-> FALSE, cache |-> trafficSummaryCache]
  ELSE LET cachedSummary ==
             getCachedTrafficSummary(trafficSummaryCache, wsid)
           summary ==
             IF cachedSummary # undefined THEN cachedSummary[1]
             ELSE analyzeWebSocketFramesV2(ws.item.frames, wsid, ConnectionUrl)
           id == toUpperCase(groupId)
           indices == IF id \in DOMAIN summary.groupToIndices
                      THEN summary.groupToIndices[id] ELSE <<>>
           filteredIndices ==
             IF direction = undefined THEN indices
             ELSE SelectSeq(indices,
                            LAMBDA idx :
                              /\ idx < Len(ws.item.frames)
                              /\ ws.item.frames[idx + 1].direction
                                   = direction[1])
       IN  [ok |-> TRUE, seq |-> ws.item.seq, frames |-> ws.item.frames,
            cached |-> cachedSummary # undefined,
            summary |-> summary, groupId |-> id,
            listed |-> formatGroupMessages(ws.item.frames, filteredIndices),
            cache |-> IF cachedSummary # undefined THEN trafficSummaryCache
                      ELSE cacheTrafficSummary(trafficSummaryCache, wsid,
                                               summary)]

\* A call of analyze_websocket_messages.
AnalyzeMessages(wsid, direction) ==
  LET out == analyzeWebSocketMessages(wsid, direction) IN
  /\ trafficSummaryCache' = out.cache
  /\ cachedFrom' =
       IF out.ok
       THEN [w \in DOMAIN cachedFrom \cup {wsid} |->
               IF w = wsid
               THEN [page |-> selectedPage, seq |-> out.seq,
                     frames |-> out.analysed]
               ELSE cachedFrom[w]]
       ELSE cachedFrom

\* A call of get_websocket_messages with a groupId.
GetMessages(wsid, direction, groupId) ==
  LET out == getWebSocketMessages(wsid, direction, groupId) IN
  /\ trafficSummaryCache' = out.cache
  /\ cachedFrom' =
       IF out.ok /\ ~out.cached
       THEN [w \in DOMAIN cachedFrom \cup {wsid} |->
               IF w = wsid
               THEN [page |-> selectedPage, seq |-> out.seq,
                     frames |-> out.frames]
               ELSE cachedFrom[w]]
       ELSE cachedFrom

\* select_page(pageIdx) for an open page.
SelectPage(p) ==
  /\ pageState[p] = "alive"
  /\ InitDone
  /\ Len(dbgTasks) < MaxReinits
  /\ Registrations < MaxListeners
  /\ selectPage(p)

\* The browser shows two pages when the server starts; the tools are
\* exercised against the connections of both.
CacheInit ==
  /\ StartWith(Pages)
  /\ focus = [kind |-> "tools", page |-> "p2"]
  /\ fpFrames = <<>>
  /\ fpSummaries = <<>>
  /\ ToolsIdle
  /\ McpStart
  /\ CacheEmpty
  /\ CliParsed

Wsids == {1, 2}
Directions == {undefined, Some("received")}
GroupIds == {<<"A">>, <<"b">>}

Analyze == \E wsid \in Wsids, direction \in Directions :
    /\ AnalyzeMessages(wsid, direction)
    /\ UNCHANGED <<mcpVars, besideCache>>
Messages == \E wsid \in Wsids, direction \in Directions, groupId \in GroupIds :
    /\ GetMessages(wsid, direction, groupId)
    /\ UNCHANGED <<mcpVars, besideCache>>
Select == \E p \in Pages :
    /\ SelectPage(p)
    /\ UNCHANGED <<cacheVars, besideCache>>

CacheNext == CreatedEvent \/ FrameEvent \/ Select \/ Analyze \/ Messages

CacheSpec == CacheInit /\ [][CacheNext]_vars

\* ------------------------------------------------- the debugger
Remove(tasks, i) == SubSeq(tasks, 1, i - 1) \o SubSeq(tasks, i + 1, Len(tasks))

\* The command call i waits on is the oldest one in flight on its client.
Answerable(i) ==
  \A j \in 1..(i - 1) : dbgTasks[j].client # dbgTasks[i].client

\* #init reaches `await this.#initDebugger()`.
InitDebugger(i) ==
  /\ dbgTasks[i].pc = "collectors"
  /\ Becomes(initDebugger([World EXCEPT !.tasks = Remove(@, i)],
                          selectedPage, TRUE))
  /\ UNCHANGED <<selectedPage, cdpDebugger, dbgLast>>

\* Debugger.disable is answered: disable() finishes, and reinitDebugger goes
\* on to #initDebugger with the page that is selected by now.
DisableAnswered(i) ==
  LET c == dbgTasks[i].client
      m == [World EXCEPT !.tasks = Remove(@, i), !.ctx = disableFinish(@),
                         !.since = "none"]
  IN  /\ dbgTasks[i].pc = "disableSent"
      /\ Answerable(i)
      /\ Becomes(initDebugger(m, selectedPage, FALSE))
      /\ cdpDebugger' = [cdpDebugger EXCEPT ![c] = FALSE]
      /\ dbgLast' = Called("disable", "disabled", c)
      /\ UNCHANGED selectedPage

\* Debugger.enable is answered.  A failure is thrown by enable and caught and
\* logged by #initDebugger; otherwise setAsyncCallStackDepth is sent.
EnableAnswered(i, ok) ==
  LET c == dbgTasks[i].client
  IN  /\ dbgTasks[i].pc = "enableSent"
      /\ Answerable(i)
      /\ IF ok
         THEN /\ cdpDebugger' = [cdpDebugger EXCEPT ![c] = TRUE]
              /\ dbgTasks' = Append(Remove(dbgTasks, i),
                                    Task("depthSent", c, dbgTasks[i].init))
              /\ UNCHANGED dbgLast
         ELSE /\ dbgTasks' = Remove(dbgTasks, i)
              /\ dbgLast' = Called("enable", "failed", c)
              /\ UNCHANGED cdpDebugger
      /\ UNCHANGED <<selectedPage, debuggerContext, dbgListeners, attached>>

\* Debugger.setAsyncCallStackDepth is answered, or fails: enable() finishes.
DepthAnswered(i) ==
  /\ dbgTasks[i].pc = "depthSent"
  /\ Answerable(i)
  /\ debuggerContext' = [debuggerContext EXCEPT !.enabled = TRUE]
  /\ dbgTasks' = Remove(dbgTasks, i)
  /\ dbgLast' = Called("enable", "enabled", dbgTasks[i].client)
  /\ UNCHANGED <<selectedPage, dbgListeners, cdpDebugger, attached>>

\* The client of page p emits Debugger.paused: #onPaused runs once for each
\* registration.
OnPaused(p) ==
  /\ cdpDebugger[p]
  /\ dbgListeners[p] > 0
  /\ debuggerContext' = [debuggerContext EXCEPT !.isPaused = TRUE]
  /\ attached' = IF debuggerContext.client = p THEN "paused" ELSE attached
  /\ UNCHANGED <<selectedPage, dbgTasks, dbgListeners, cdpDebugger, dbgLast>>

\* The client of page p emits Debugger.resumed: #onResumed.
OnResumed(p) ==
  /\ cdpDebugger[p]
  /\ dbgListeners[p] > 0
  /\ debuggerContext' = [debuggerContext EXCEPT !.isPaused = FALSE]
  /\ attached' = IF debuggerContext.client = p THEN "resumed" ELSE attached
  /\ UNCHANGED <<selectedPage, dbgTasks, dbgListeners, cdpDebugger, dbgLast>>

\* The client of page p emits Debugger.scriptParsed: #onScriptParsed.
OnScriptParsed(p, scriptId) ==
  /\ cdpDebugger[p]
  /\ dbgListeners[p] > 0
  /\ debuggerContext' = [debuggerContext EXCEPT !.scripts = @ \cup {scriptId}]
  /\ UNCHANGED <<selectedPage, dbgTasks, dbgListeners, cdpDebugger, dbgLast,
                 attached>>

Steps == {"resume", "stepOver", "stepInto", "stepOut", "evaluateOnCallFrame"}
ScriptIds == {"s1"}
BreakpointIds == {"b1"}

\* A stepping command that looks at the client only.
stepCheckClientOnly(ctx) ==
  IF ctx.client = "none" THEN "Debugger not enabled" ELSE "sent"

\* The checks resume, stepOver, stepInto, stepOut and evaluateOnCallFrame
\* make before they send.
stepCheck(ctx) ==
  IF ctx.client = "none" THEN "Debugger not enabled"
  ELSE IF ~ctx.isPaused THEN "Execution is not paused"
  ELSE "sent"

\* The check of pause().
pauseCheck(ctx) ==
  IF ctx.client = "none" THEN "Debugger not enabled" ELSE "sent"

\* resume(), stepOver(), stepInto(), stepOut() or evaluateOnCallFrame().
Step(op) ==
  LET result == stepCheck(debuggerContext)
  IN  /\ InitDone
      /\ dbgLast' = Called(op, result,
                           IF result = "sent" THEN debuggerContext.client
                           ELSE "-")
      /\ UNCHANGED <<selectedPage, dbgTasks, debuggerContext, dbgListeners,
                     cdpDebugger, attached>>

\* pause().
Pause ==
  LET result == pauseCheck(debuggerContext)
  IN  /\ InitDone
      /\ dbgLast' = Called("pause", result,
                           IF result = "sent" THEN debuggerContext.client
                           ELSE "-")
      /\ UNCHANGED <<selectedPage, dbgTasks, debuggerContext, dbgListeners,
                     cdpDebugger, attached>>

\* setBreakpoint(): the command is sent when there is a client, and its
\* answer is recorded in #breakpoints.
SetBreakpoint(breakpointId) ==
  LET result == pauseCheck(debuggerContext)
  IN  /\ InitDone
      /\ dbgLast' = Called("setBreakpoint", result,
                           IF result = "sent" THEN debuggerContext.client
                           ELSE "-")
      /\ debuggerContext' =
           IF result = "sent"
           THEN [debuggerContext EXCEPT !.breakpoints = @ \cup {breakpointId}]
           ELSE debuggerContext
      /\ UNCHANGED <<selectedPage, dbgTasks, dbgListeners, cdpDebugger,
                     attached>>

\* A new McpContext whose #init has run createPagesSnapshot: the first page
\* was selected there, which started reinitDebugger.
DbgStart ==
  LET m == reinitDebugger(
             [ctx |-> DebuggerContextNew, on |-> [p \in Pages |-> 0],
              tasks |-> << Task("collectors", "-", TRUE) >>,
              since |-> "none"], "p1")
  IN  /\ selectedPage = "p1"
      /\ debuggerContext = m.ctx
      /\ dbgListeners = m.on
      /\ dbgTasks = m.tasks
      /\ attached = m.since
      /\ cdpDebugger = [p \in Pages |-> FALSE]
      /\ dbgLast = Called("-", "-", "-")

DbgInit ==
  /\ StartWith(Pages)
  /\ focus = [kind |-> "tools", page |-> "p2"]
  /\ fpFrames = <<>>
  /\ fpSummaries = <<>>
  /\ ToolsIdle
  /\ DbgStart
  /\ CacheEmpty
  /\ CliParsed

besideMcp == <<collectorVars, fpVars, toolVars, cliVars, cacheVars>>

Initialise == \E i \in 1..Len(dbgTasks) :
    /\ InitDebugger(i)
    /\ UNCHANGED besideMcp

Disabled == \E i \in 1..Len(dbgTasks) :
    /\ DisableAnswered(i)
    /\ UNCHANGED besideMcp

Enabled == \E i \in 1..Len(dbgTasks), ok \in BOOLEAN :
    /\ EnableAnswered(i, ok)
    /\ UNCHANGED besideMcp

Depth == \E i \in 1..Len(dbgTasks) :
    /\ DepthAnswered(i)
    /\ UNCHANGED besideMcp

PausedEvent == \E p \in Pages :
    /\ OnPaused(p)
    /\ UNCHANGED besideMcp

ResumedEvent == \E p \in Pages :
    /\ OnResumed(p)
    /\ UNCHANGED besideMcp

ScriptEvent == \E p \in Pages, scriptId \in ScriptIds :
    /\ OnScriptParsed(p, scriptId)
    /\ UNCHANGED besideMcp

StepCall == \E op \in Steps :
    /\ Step(op)
    /\ UNCHANGED besideMcp

PauseCall ==
    /\ Pause
    /\ UNCHANGED besideMcp

BreakpointCall == \E breakpointId \in BreakpointIds :
    /\ SetBreakpoint(breakpointId)
    /\ UNCHANGED besideMcp

DbgNext ==
  \/ Initialise \/ Disabled \/ Enabled \/ Depth \/ Select
  \/ PausedEvent \/ ResumedEvent \/ ScriptEvent
  \/ StepCall \/ PauseCall \/ BreakpointCall

DbgSpec == DbgInit /\ [][DbgNext]_vars

\* ------------------------------------------------- tool calls (main.ts)
\* Mutex.acquire by call c: the lock is taken when it is free, otherwise the
\* call joins the queue of acquirers.
acquire(mutex, c) ==
  IF ~mutex.locked THEN [mutex EXCEPT !.locked = TRUE]
  ELSE [mutex EXCEPT !.acquirers = Append(@, c)]

\* Mutex.release: the lock passes to the first acquirer, if any.
release(mutex) ==
  IF mutex.acquirers = <<>> THEN [mutex EXCEPT !.locked = FALSE]
  ELSE [mutex EXCEPT !.acquirers = Tail(@)]

\* A callback that leaves by its catch block without disposing the guard.
afterThrowKeepGuard(mutex) == mutex

\* catch (err) { logger(...); throw err } finally { guard.dispose() }
afterThrow(mutex) == release(mutex)

\* return {content} or {content, isError}, then finally { guard.dispose() }
afterReturn(mutex) == release(mutex)

Executing == {"context", "handler", "format"}

\* The call leaves the callback with result; whoever the mutex passed the
\* lock to has its acquire() resolved.
Leave(c, result, mutex) ==
  /\ toolMutex' = mutex
  /\ toolPc' = [d \in Calls |->
                  IF d = c THEN "idle"
                  ELSE IF /\ toolMutex.acquirers # <<>>
                          /\ mutex.acquirers # toolMutex.acquirers
                          /\ d = Head(toolMutex.acquirers)
                  THEN "granted"
                  ELSE toolPc[d]]
  /\ toolResult' = [toolResult EXCEPT ![c] = result]

\* The client calls a tool: const guard = await toolMutex.acquire().
CallTool(c) ==
  /\ toolPc[c] = "idle"
  /\ toolMutex' = acquire(toolMutex, c)
  /\ toolPc' = [toolPc EXCEPT
                  ![c] = IF toolMutex.locked THEN "waiting" ELSE "context"]
  /\ UNCHANGED <<toolResult, besideTools>>

\* The await of acquire() resumes with the guard.
Admit(c) ==
  /\ toolPc[c] = "granted"
  /\ toolPc' = [toolPc EXCEPT ![c] = "context"]
  /\ UNCHANGED <<toolMutex, toolResult, besideTools>>

\* await getContext(); await context.detectOpenDevToolsWindows()
GetContext(c, ok) ==
  /\ toolPc[c] = "context"
  /\ IF ok
     THEN /\ toolPc' = [toolPc EXCEPT ![c] = "handler"]
          /\ UNCHANGED <<toolMutex, toolResult>>
     ELSE Leave(c, "thrown", afterThrow(toolMutex))
  /\ UNCHANGED besideTools

\* await tool.handler({params}, response, context)
RunHandler(c, ok) ==
  /\ toolPc[c] = "handler"
  /\ IF ok
     THEN /\ toolPc' = [toolPc EXCEPT ![c] = "format"]
          /\ UNCHANGED <<toolMutex, toolResult>>
     ELSE Leave(c, "thrown", afterThrow(toolMutex))
  /\ UNCHANGED besideTools

\* await response.handle(tool.name, context): its error is caught and
\* returned as an isError result.
Format(c, ok) ==
  /\ toolPc[c] = "format"
  /\ Leave(c, IF ok THEN "content" ELSE "isError", afterReturn(toolMutex))
  /\ UNCHANGED besideTools

ToolInit ==
  /\ CollectorsInit
  /\ focus = [kind |-> "console", page |-> "p1"]
  /\ fpFrames = <<>>
  /\ fpSummaries = <<>>
  /\ ToolsIdle
  /\ McpStart
  /\ CacheEmpty
  /\ CliParsed

Call == \E c \in Calls : CallTool(c)

Resume == \E c \in Calls : Admit(c)

Context == \E c \in Calls, ok \in BOOLEAN : GetContext(c, ok)

Handler == \E c \in Calls, ok \in BOOLEAN : RunHandler(c, ok)

Respond == \E c \in Calls, ok \in BOOLEAN : Format(c, ok)

ToolNext == Call \/ Resume \/ Context \/ Handler \/ Respond

\* Every await of the callback settles: a call that holds the guard goes on.
ToolProgress(c) ==
  \/ Admit(c)
  \/ \E ok \in BOOLEAN : GetContext(c, ok) \/ RunHandler(c, ok) \/ Format(c, ok)

ToolSpec ==
  ToolInit /\ [][ToolNext]_vars /\ \A c \in Calls : WF_vars(ToolProgress(c))

\* ------------------------------------------------- start-up (main.ts)
CliInit ==
  /\ CollectorsInit
  /\ focus = [kind |-> "console", page |-> "p1"]
  /\ fpFrames = <<>>
  /\ fpSummaries = <<>>
  /\ ToolsIdle
  /\ McpStart
  /\ CacheEmpty
  /\ cliArgv \in CliInputs
  /\ cliArgs = <<>>

\* export const args = parseArguments(VERSION)
ParseArguments ==
  /\ cliArgs = <<>>
  /\ cliArgs' = << parseArguments(cliArgv) >>
  /\ cliArgv' = cliArgv
  /\ UNCHANGED besideCli

CliNext == ParseArguments

CliSpec == CliInit /\ [][CliNext]_vars


\* ================================================= properties
R == maxNavigationSaved

Tracked(k, p) == IF k = "websocket" THEN wsHasStorage[p] ELSE hasStorage[k][p]
Stored(k, p) == IF k = "websocket" THEN wsStorage[p] ELSE storage[k][p]
currentItems(k, p) ==
  IF k = "websocket" THEN wsGetData(p, FALSE) ELSE getData(k, p, FALSE)
allItems(k, p) ==
  IF k = "websocket" THEN wsGetData(p, TRUE) ELSE getData(k, p, TRUE)
byId(k, p, id) ==
  IF k = "websocket" THEN wsGetById(p, id) ELSE getById(k, p, id)
findId(k, p, id) == IF k = "websocket" THEN wsFind(p, id) ELSE find(k, p, id)
Tag(x) == [seq |-> x.seq, ep |-> x.ep, id |-> x.id]

\* C1: the id an item carries, in whatever epoch it is stored, is the one
\* the generator gave it when it was collected, and no two items collected
\* for one page by one collector carry the same id unless the generator
\* has wrapped around.
C1_IdStability ==
  \A k \in Kinds, p \in Pages :
    /\ \A x \in Range(Flatten(Stored(k, p))) :
          Tag(x) \in produced[k][p] /\ x.id # -1
    /\ ~wrapped[k][p] =>
          \A a \in produced[k][p], b \in produced[k][p] :
             a.seq # b.seq => a.id # b.id

\* A request collected before a navigation sits in the current epoch (the
\* cut moved it), another one stayed behind, and both kept their ids.
C1_Witness ==
  LET st == storage["network"]["p1"] IN
  /\ Len(st) >= 2
  /\ \E x \in Range(st[1]) : x.ep < navs["network"]["p1"] /\ x.id >= 1
  /\ \E y \in Range(st[2]) : y.id >= 1

\* C2: no page of any collector stores more than R epochs.
C2_RetentionBound ==
  \A k \in Kinds, p \in Pages : Len(Stored(k, p)) <= R

\* C3: allItems draws on at most R epochs, and an item stored beyond the
\* R most recent epochs is returned by no query.
C3_QueryRetention ==
  \A k \in Kinds, p \in Pages :
    LET st == Stored(k, p)
        all == allItems(k, p)
        drawn == {e \in 1..Len(st) :
                    \E x \in Range(st[e]) : x \in Range(all)}
    IN  /\ Cardinality(drawn) <= R
        /\ \A e \in (R + 1)..Len(st) : \A x \in Range(st[e]) :
              /\ x \notin Range(all)
              /\ x \notin Range(currentItems(k, p))
              /\ x \notin Range(findId(k, p, x.id))
              /\ ~(byId(k, p, x.id).ok /\ byId(k, p, x.id).item = x)

\* C4: a main-frame navigation cuts the current epoch of the Network
\* collector at its last main-frame navigation request: the requests from
\* there on become the current epoch, the ones before it the previous
\* epoch, in their order; without such a request the current epoch is empty
\* and the previous epoch is the old current one.
C4_CutPoint ==
  [][\A p \in Pages :
       navs'["network"][p] = navs["network"][p] + 1 =>
         LET cur == storage["network"][p][1]
             new == storage'["network"][p]
             K == {i \in 1..Len(cur) :
                     cur[i].mainFrame /\ cur[i].isNavigationRequest}
         IN  /\ Len(new) >= 2
             /\ new[2] \o new[1] = cur
             /\ IF K = {} THEN new[1] = <<>> /\ new[2] = cur
                ELSE LET k == CHOOSE i \in K : \A j \in K : j <= i
                     IN  /\ new[1] = SubSeq(cur, k, Len(cur))
                         /\ new[2] = SubSeq(cur, 1, k - 1)]_vars

\* After a navigation the current epoch starts with a main-frame navigation
\* request collected before it and holds a later request too, and the
\* previous epoch holds what came before.
C4_Witness ==
  LET st == storage["network"]["p1"] IN
  /\ last.op = "framenavigated" /\ last.arg = "main"
  /\ Len(st) >= 2
  /\ Len(st[1]) >= 2 /\ Len(st[2]) >= 1
  /\ st[1][1].mainFrame /\ st[1][1].isNavigationRequest
  /\ st[1][1].ep < navs["network"]["p1"]

\* C5: allItems is the concatenation of the stored epochs, oldest first.
C5_Chronological ==
  \A k \in Kinds, p \in Pages :
    Tracked(k, p) => allItems(k, p) = Flatten(Reverse(Stored(k, p)))


\* C6: in the Console and WebSocket collectors every main-frame navigation
\* of a tracked page pushes exactly one empty epoch and keeps the R most
\* recent ones, so epoch e holds what was collected e-1 navigations ago and
\* allItems is what was collected in the R most recent epochs.
C6_Retained(k, p) ==
  LET st == Stored(k, p)
      n == navs[k][p]
      seqs(items) == {x.seq : x \in items}
  IN  /\ Len(st) = IF n + 1 < R THEN n + 1 ELSE R
      /\ \A e \in 1..Len(st) :
           seqs(Range(st[e])) =
             seqs({q \in produced[k][p] : q.ep = n - (e - 1)})
      /\ seqs(Range(allItems(k, p))) =
           seqs({q \in produced[k][p] : q.ep > n - R})

C6_DefaultRotation ==
  /\ [](\A k \in {"console", "websocket"}, p \in Pages :
          Tracked(k, p) => C6_Retained(k, p))
  /\ [][\A k \in {"console", "websocket"}, p \in Pages :
          (/\ Tracked(k, p)
           /\ last'.op = "framenavigated"
           /\ last'.arg = "main"
           /\ last'.page = p)
          => /\ navs'[k][p] = navs[k][p] + 1
             /\ Stored(k, p)' = Take(<< <<>> >> \o Stored(k, p), R)]_vars

\* After four navigations a console message collected after the first one
\* is gone while a later one is still returned.
C6_Witness ==
  /\ navs["console"]["p1"] = 4
  /\ Len(storage["console"]["p1"]) = R
  /\ \E q \in produced["console"]["p1"] :
        q.ep = 1 /\ \A x \in Range(allItems("console", "p1")) : x.seq # q.seq
  /\ allItems("console", "p1") # <<>>

\* C7: after a navigation, a frame or closed event for a requestId that no
\* connection of the current epoch carries changes no stored record.
C7_LookupReset ==
  [][\A p \in Pages :
       (/\ last'.op \in {"sent", "received", "closed"}
        /\ last'.page = p
        /\ wsHasStorage[p]
        /\ navs["websocket"][p] >= 1
        /\ \A ws \in Range(wsStorage[p][1]) : ws.requestId # last'.arg)
       => wsStorage'[p] = wsStorage[p]]_vars

\* C8: a created event for a requestId used before a navigation appends a
\* new record with a fresh id to the current epoch and touches no other;
\* a later frame or closed event changes at most the youngest record of
\* its requestId.
C8_Created(p) ==
  LET navigations == wsStorage[p]
      new == wsStorage'[p]
      added == new[1][Len(new[1])]
  IN  /\ Len(new) = Len(navigations)
      /\ \A e \in 2..Len(new) : new[e] = navigations[e]
      /\ Len(new[1]) = Len(navigations[1]) + 1
      /\ SubSeq(new[1], 1, Len(navigations[1])) = navigations[1]
      /\ added.requestId = last'.arg
      /\ added.frames = <<>>
      /\ added.ep = navs["websocket"][p]
      /\ \A ws \in Range(Flatten(navigations)) :
            /\ ws.seq # added.seq
            /\ ~wrapped'["websocket"][p] => ws.id # added.id

C8_Event(p) ==
  LET navigations == wsStorage[p]
      new == wsStorage'[p]
  IN  /\ Len(new) = Len(navigations)
      /\ \A e \in 1..Len(new) :
           /\ Len(new[e]) = Len(navigations[e])
           /\ \A i \in 1..Len(new[e]) :
                new[e][i] # navigations[e][i] =>
                  /\ navigations[e][i].requestId = last'.arg
                  /\ \A ws \in Range(Flatten(navigations)) :
                        ws.requestId = last'.arg =>
                          ws.seq <= navigations[e][i].seq

C8_IdReuse ==
  [][\A p \in Pages :
       (wsHasStorage[p] /\ last'.page = p) =>
         /\ last'.op = "created" => C8_Created(p)
         /\ last'.op \in {"sent", "received", "closed"} => C8_Event(p)]_vars

\* A requestId was used before and after a navigation: two records with
\* different ids, the younger one in the current epoch got the event that
\* came last, the older one is as it was created.
C8_Witness ==
  /\ last.op \in {"sent", "received", "closed"}
  /\ last.page = "p1"
  /\ Len(wsStorage["p1"]) >= 2
  /\ \E young \in Range(wsStorage["p1"][1]),
        old \in Range(Flatten(Tail(wsStorage["p1"]))) :
        /\ young.requestId = last.arg /\ old.requestId = last.arg
        /\ old.id # young.id
        /\ old.frames = <<>> /\ old.status = "open"
        /\ young.frames # <<>> \/ young.status = "closed"

\* C9: a frame event whose requestId the lookup table does not hold leaves
\* the stored connections and the lookup table as they were.
C9_UnknownFrame ==
  [][\A p \in Pages :
       (/\ last'.op \in {"sent", "received"}
        /\ last'.page = p
        /\ last'.arg \notin DOMAIN handlerMap[p])
       => /\ wsStorage' = wsStorage
          /\ handlerMap' = handlerMap
          /\ connectionMap' = connectionMap
          /\ wsHasStorage' = wsHasStorage]_vars

\* A frame arrived for r2 while only r1 was ever created.
C9_Witness ==
  /\ last.op \in {"sent", "received"}
  /\ last.page = "p1"
  /\ last.arg = "r2"
  /\ DOMAIN handlerMap["p1"] = {"r1"}
  /\ Len(Flatten(wsStorage["p1"])) = 1

\* C10: addPage on a page the collector tracks already changes nothing of
\* what the collector holds for it: storage, id generator, listeners.
CollectorState(k, p) ==
  IF k = "websocket"
  THEN <<wsStorage[p], wsIdGen[p], connectionMap[p], handlerMap[p],
         wsHasCdp[p], wsCdp[p], wsPageL[p], wsShared[p]>>
  ELSE IF k = "network"
  THEN <<storage[k][p], idGen[k][p], listeners[k][p], initiators[p],
         hasInitiators[p], netCdp[p], netRegistered[p]>>
  ELSE <<storage[k][p], idGen[k][p], listeners[k][p]>>

C10_TrackIdempotent ==
  [][\A p \in Pages, k \in Kinds :
       (/\ last'.op = "addPage"
        /\ last'.page = p
        /\ last'.kind \in {k, "all"}
        /\ Tracked(k, p))
       => /\ CollectorState(k, p)' = CollectorState(k, p)
          /\ Tracked(k, p)']_vars

\* McpContext.newPage tracked p2 after the target-created handler of the
\* focused collector had done so and items had been collected.
C10_Witness ==
  /\ last = Op("addPage", "all", "p2", "-")
  /\ focus.page = "p2"
  /\ ~pendingCreated[focus.kind]["p2"]
  /\ produced[focus.kind]["p2"] # {}
  /\ Flatten(Stored(focus.kind, "p2")) # <<>>


StableIds == 0..MaxSafeInteger

\* C11: the clean-up of a page, whether or not the page's session is gone
\* and listener removal fails, leaves nothing of the page: currentItems and
\* allItems are empty, byId fails for every id, no initiator is found; and
\* addPage on an untracked page starts from a single empty epoch and a new
\* generator.
C11_UntrackDiscards ==
  [][\A k \in Kinds, p \in Pages :
       /\ (last'.op = "cleanup" /\ last'.kind = k /\ last'.page = p) =>
            (/\ ~Tracked(k, p)
             /\ currentItems(k, p) = <<>>
             /\ allItems(k, p) = <<>>
             /\ \A id \in StableIds : ~byId(k, p, id).ok
             /\ k = "network" =>
                  \A r \in RequestIds :
                     getInitiatorByRequestId(p, r) = "undefined")'
       /\ (/\ last'.op = "addPage"
           /\ last'.kind \in {k, "all"}
           /\ last'.page = p
           /\ ~Tracked(k, p)) =>
            (/\ Tracked(k, p)
             /\ Stored(k, p) = << <<>> >>
             /\ currentItems(k, p) = <<>>
             /\ IF k = "websocket" THEN wsIdGen[p] = wsCreateIdGenerator
                ELSE idGen[k][p] = createIdGenerator)']_vars

\* The WebSocket collector cleaned up a closed page whose session was gone,
\* after a connection had been collected for it.
C11_Witness ==
  /\ last = Op("cleanup", "websocket", "p2", "clientGone")
  /\ focus = [kind |-> "websocket", page |-> "p2"]
  /\ nextSeq > 1
  /\ wsStorage["p2"] = <<>>


\* C12: a clean-up whose listener removal does not fail leaves none of the
\* listeners the collector registered for the page subscribed: no page-level
\* listener map, no framenavigated listener, no handler on the session.
C12_ListenerTeardown ==
  [][\A k \in Kinds, p \in Pages :
       (/\ last'.op = "cleanup"
        /\ last'.kind = k
        /\ last'.page = p
        /\ last'.arg # "clientGone")
       => /\ k \in GenericKinds => listeners'[k][p] = 0
          /\ k = "network" => netCdp'[p] = 0
          /\ k = "websocket" => wsCdp'[p] = 0 /\ wsPageL'[p] = 0]_vars


\* C13: no page is half-tracked: a page a collector holds state for has
\* the collector's whole registration, session handlers included.
C13_TrackAtomic ==
  \A p \in Pages :
    /\ wsHasStorage[p] => wsHasCdp[p] /\ wsCdp[p] >= 1 /\ wsPageL[p] >= 1
    /\ hasStorage["network"][p] =>
         hasInitiators[p] /\ netRegistered[p] /\ netCdp[p] >= 1
    /\ hasInitiators[p] => hasStorage["network"][p]
    /\ \A k \in GenericKinds : hasStorage[k][p] => listeners[k][p] >= 1


\* C14: once a page is destroyed and every target-created handler,
\* target-destroyed handler and newPage call for it has completed, the
\* collector holds no epochs, no items and no generator for it.
C14_DestroyedPageForgotten ==
  \A k \in Kinds, p \in Pages :
    (/\ pageState[p] = "closed"
     /\ ~pendingCreated[k][p]
     /\ ~pendingDestroyed[k][p]
     /\ ~newPagePending[p])
    => /\ ~Tracked(k, p)
       /\ Stored(k, p) = <<>>
       /\ IF k = "websocket" THEN wsIdGen[p] = 0 ELSE idGen[k][p] = 0


\* C15: byId on a page without state fails with the no-state error; on a
\* tracked page it returns a stored item carrying the id when one of the R
\* most recent epochs holds such an item, and fails with the not-found
\* error, a different one, when no stored item carries the id.
NoStateError(k) ==
  IF k = "websocket" THEN "No WebSocket connections found for selected page"
  ELSE "No requests found for selected page"

NotFoundError(k) ==
  IF k = "websocket" THEN "WebSocket connection not found for selected page"
  ELSE "Request not found for selected page"

C15_ById ==
  \A k \in Kinds, p \in Pages, id \in StableIds :
    LET r == byId(k, p, id)
        stored == Range(Flatten(Stored(k, p)))
        recent == Range(Flatten(Take(Stored(k, p), R)))
    IN  /\ NoStateError(k) # NotFoundError(k)
        /\ ~Tracked(k, p) => ~r.ok /\ r.error = NoStateError(k)
        /\ Tracked(k, p) =>
             /\ (\E x \in recent : x.id = id) => r.ok
             /\ r.ok => r.item \in stored /\ r.item.id = id
             /\ (\A x \in stored : x.id # id) =>
                  ~r.ok /\ r.error = NotFoundError(k)

\* Console holds a message with id 1 in an earlier epoch of p1 and none with
\* id 2, and holds nothing for p2: the three outcomes of byId.
C15_Witness ==
  /\ Len(storage["console"]["p1"]) >= 2
  /\ storage["console"]["p1"][1] = <<>>
  /\ byId("console", "p1", 1).ok
  /\ byId("console", "p1", 2) =
       [ok |-> FALSE, error |-> NotFoundError("console")]
  /\ byId("console", "p2", 1) =
       [ok |-> FALSE, error |-> NoStateError("console")]


\* C16: for every collector, currentItems and allItems of a page without
\* state are empty sequences, and currentItems of a tracked page is the
\* current epoch, its items in the order they were collected.
C16_CurrentItems ==
  \A k \in Kinds, p \in Pages :
    LET cur == currentItems(k, p) IN
    /\ ~Tracked(k, p) => cur = <<>> /\ allItems(k, p) = <<>>
    /\ Tracked(k, p) =>
         /\ cur = Stored(k, p)[1]
         /\ \A i \in 1..Len(cur), j \in 1..Len(cur) :
               i < j => cur[i].seq < cur[j].seq

\* Two messages in the current epoch of p1 behind an earlier epoch that is
\* not empty, and a page the collector holds nothing for.
C16_Witness ==
  /\ Len(currentItems("console", "p1")) >= 2
  /\ Len(storage["console"]["p1"]) >= 2
  /\ storage["console"]["p1"][2] # <<>>
  /\ ~hasStorage["console"]["p2"]
  /\ currentItems("console", "p2") = <<>>
  /\ allItems("console", "p2") = <<>>


\* C17: the ids a page's generator hands out start at 1, grow by one, and
\* start again at 1 after the wrap-around: every id is a positive integer.
C17_PositiveIds ==
  \A k \in Kinds, p \in Pages :
    \A a \in produced[k][p] :
      /\ a.id >= 1
      /\ (\A b \in produced[k][p] : b.seq >= a.seq) => a.id = 1
      /\ \A b \in produced[k][p] :
           (/\ a.seq < b.seq
            /\ \A c \in produced[k][p] : ~(a.seq < c.seq /\ c.seq < b.seq))
           => b.id = a.id + 1 \/ (wrapped[k][p] /\ b.id = 1)


RECURSIVE bijectiveWord(_)
bijectiveWord(n) ==
  IF n = 0 THEN <<>>
  ELSE LET d == ((n - 1) % 26) + 1
       IN  bijectiveWord((n - d) \div 26) \o << Letters[d] >>

\* C19: the group at sorted position i carries the i-th word of the
\* bijective base-26 letter sequence (A, ..., Z, AA, AB, ...), and different
\* positions carry different ids.
C19_GroupIds ==
  /\ \A n \in 1..Len(fpSummaries) :
       LET groups == fpSummaries[n].groups
       IN  /\ \A i \in 1..Len(groups) : groups[i].id = bijectiveWord(i)
           /\ \A i \in 1..Len(groups), j \in 1..Len(groups) :
                i # j => groups[i].id # groups[j].id
  /\ \A i \in 0..MaxIndex : generateGroupId(i) = bijectiveWord(i + 1)
  /\ Cardinality({generateGroupId(i) : i \in 0..MaxIndex}) = MaxIndex + 1

\* A frame list of 27 groups has been analysed: the 27th group is "AA".
C19_Witness ==
  /\ fpSummaries # <<>>
  /\ Len(fpSummaries[1].groups) = 27
  /\ fpSummaries[1].groups[26].id = <<"Z">>
  /\ fpSummaries[1].groups[27].id = <<"A", "A">>


SizeCategories == {"tiny", "small", "medium", "large", "xlarge"}

\* The frame is received and binary, and its payload decodes to bytes that
\* start with 1f 8b 08 00.
GzipFrame(frame) ==
  /\ frame.direction = "received"
  /\ frame.opcode = 2
  /\ atob(frame.payloadData).ok
  /\ Take(atob(frame.payloadData).bytes, 4) = <<31, 139, 8, 0>>

\* The positions, from 0, of the gzip frames whose payload string falls
\* into size bucket c.
GzipIndices(frames, c) ==
  {i - 1 : i \in {j \in 1..Len(frames) :
                    /\ GzipFrame(frames[j])
                    /\ getSizeCategory(Len(frames[j].payloadData)) = c}}

Provided(value) == value # undefined

\* C22 as stated: channel becomes 'stable' exactly when none of channel,
\* browserUrl, wsEndpoint and executablePath is provided, and no channel is
\* set when one of the latter three is.
C22_DefaultWhenNoneProvided ==
  \A n \in 1..Len(cliArgs) :
    LET given == coerced(cliArgv)
        args == cliArgs[n].args
    IN  cliArgs[n].ok =>
          /\ (args.channel = Some("stable") /\ ~Provided(given.channel))
               <=> (/\ ~Provided(given.channel)
                    /\ ~Provided(given.browserUrl)
                    /\ ~Provided(given.wsEndpoint)
                    /\ ~Provided(given.executablePath))
          /\ ( \/ Provided(given.browserUrl)
               \/ Provided(given.wsEndpoint)
               \/ Provided(given.executablePath) )
             => args.channel = undefined

\* C22: channel becomes 'stable' exactly when each of channel, browserUrl,
\* wsEndpoint and executablePath is undefined or empty after coercion, and
\* no channel is set when one of the latter three is a non-empty string.
C22_DefaultWhenAllFalsy ==
  \A n \in 1..Len(cliArgs) :
    LET given == coerced(cliArgv)
        args == cliArgs[n].args
    IN  cliArgs[n].ok =>
          /\ (args.channel = Some("stable") /\ ~Provided(given.channel))
               <=> (/\ falsy(given.channel)
                    /\ falsy(given.browserUrl)
                    /\ falsy(given.wsEndpoint)
                    /\ falsy(given.executablePath))
          /\ ( \/ ~falsy(given.browserUrl)
               \/ ~falsy(given.wsEndpoint)
               \/ ~falsy(given.executablePath) )
             => args.channel = undefined
          /\ args.browserUrl = given.browserUrl
          /\ args.wsEndpoint = given.wsEndpoint
          /\ args.executablePath = given.executablePath

\* An empty browser url was parsed: it is undefined and the channel stable.
C22_Witness ==
  /\ cliArgs # <<>>
  /\ cliArgs[1].ok
  /\ cliArgv.browserUrl = Some("")
  /\ cliArgs[1].args.browserUrl = undefined
  /\ cliArgs[1].args.channel = Some("stable")


\* C23: a created event on a tracked page appends one new record to the end
\* of the current epoch and changes no other; the record carries the next
\* stable id, no frames and status open, and the handlers' lookup table maps
\* the event's requestId to it; no stored record is ever connecting.
C23_CreatedHandling ==
  /\ [](\A p \in Pages : \A ws \in Range(Flatten(wsStorage[p])) :
          ws.status # "connecting")
  /\ [][\A p \in Pages :
          (last'.op = "created" /\ last'.page = p /\ wsHasStorage[p]) =>
            LET current == wsStorage[p][1]
                new == wsStorage'[p][1]
                added == new[Len(new)]
            IN  /\ Len(new) = Len(current) + 1
                /\ SubSeq(new, 1, Len(current)) = current
                /\ Tail(wsStorage'[p]) = Tail(wsStorage[p])
                /\ added.requestId = last'.arg
                /\ added.id = wsIdGenerator(wsIdGen[p]).value
                /\ wsIdGen'[p] = wsIdGenerator(wsIdGen[p]).next
                /\ added.status = "open"
                /\ added.frames = <<>>
                /\ last'.arg \in DOMAIN handlerMap'[p]
                /\ handlerMap'[p][last'.arg] = added.seq
                /\ \A ws \in Range(Flatten(wsStorage[p])) : ws.seq # added.seq
       ]_vars

\* A created event was handled after a navigation: its record is the last
\* of the current epoch, open, and registered.
C23_Witness ==
  /\ last.op = "created"
  /\ last.page = "p1"
  /\ navs["websocket"]["p1"] >= 1
  /\ wsStorage["p1"][1] # <<>>
  /\ LET added == wsStorage["p1"][1][Len(wsStorage["p1"][1])]
     IN  /\ added.status = "open"
         /\ added.requestId = last.arg
         /\ handlerMap["p1"][last.arg] = added.seq
         /\ added.ep >= 1


\* The record with identity seq among the page's stored ones, in a sequence
\* of at most one.
recordOf(navigations, seq) ==
  SelectSeq(Flatten(navigations), LAMBDA ws : ws.seq = seq)

\* C24: a stored connection is open or closed; it turns closed, with the
\* event's time as closedAt, in exactly the steps that handle a closed event
\* for the requestId the lookup table maps to it; a closed event for a
\* requestId the table does not hold changes nothing; and a closed
\* connection stays closed.
C24_Lifecycle ==
  [][\A p \in Pages :
       /\ \A ws \in Range(Flatten(wsStorage[p])) :
            LET after == recordOf(wsStorage'[p], ws.seq)
                closing == /\ last'.op = "closed"
                           /\ last'.page = p
                           /\ last'.arg \in DOMAIN handlerMap[p]
                           /\ handlerMap[p][last'.arg] = ws.seq
            IN  after # <<>> =>
                  /\ ws.status \in {"open", "closed"}
                  /\ ws.status = "closed" => after[1].status = "closed"
                  /\ (ws.status = "open" /\ after[1].status = "closed")
                       => closing
                  /\ closing => /\ after[1].status = "closed"
                                /\ after[1].closedAt \in
                                     {t * 1000 : t \in Timestamps}
                  /\ ~closing => after[1].closedAt = ws.closedAt
                  /\ after[1].id = ws.id
                  /\ after[1].requestId = ws.requestId
       /\ ( /\ last'.op = "closed"
            /\ last'.page = p
            /\ last'.arg \notin DOMAIN handlerMap[p] )
          => /\ wsStorage'[p] = wsStorage[p]
             /\ handlerMap'[p] = handlerMap[p]
             /\ connectionMap'[p] = connectionMap[p]
    ]_vars

\* A connection was closed and its requestId then used again by a created
\* event: the closed record is still closed, the new one open.
C24_Witness ==
  /\ last.op = "created"
  /\ last.page = "p1"
  /\ \E old, young \in Range(Flatten(wsStorage["p1"])) :
       /\ old.requestId = last.arg /\ young.requestId = last.arg
       /\ old.seq < young.seq
       /\ old.status = "closed" /\ old.closedAt = 1000
       /\ young.status = "open"


\* C25: in every step a stored connection keeps its frame list, or -- in a
\* step that handles a frame event for the requestId the lookup table maps
\* to it -- gets exactly one frame at the end, sent for frame-sent and
\* received for frame-received, built from the event; the frames it had
\* stay as and where they were.
C25_AppendOnly ==
  [][\A p \in Pages : \A ws \in Range(Flatten(wsStorage[p])) :
       LET after == recordOf(wsStorage'[p], ws.seq)
           n == Len(ws.frames)
           framed == /\ last'.op \in {"sent", "received"}
                     /\ last'.page = p
                     /\ last'.arg \in DOMAIN handlerMap[p]
                     /\ handlerMap[p][last'.arg] = ws.seq
       IN  after # <<>> =>
             /\ ~framed => after[1].frames = ws.frames
             /\ framed =>
                  /\ Len(after[1].frames) = n + 1
                  /\ SubSeq(after[1].frames, 1, n) = ws.frames
                  /\ after[1].frames[n + 1].direction = last'.op
                  /\ \E event \in FrameEvents :
                       /\ after[1].frames[n + 1].payloadData = event.payloadData
                       /\ after[1].frames[n + 1].opcode = event.opcode
                       /\ after[1].frames[n + 1].timestamp
                            = event.timestamp * 1000
    ]_vars

\* A connection got a sent frame and then a received one: they are its
\* frames 0 and 1.
C25_Witness ==
  /\ last.op = "received"
  /\ \E ws \in Range(Flatten(wsStorage[last.page])) :
       /\ Len(ws.frames) = 2
       /\ ws.frames[1].direction = "sent"
       /\ ws.frames[2].direction = "received"


\* The step is a main-frame navigation that rotates the Network epochs of p.
NetworkRotation(p) ==
  /\ last'.op = "framenavigated"
  /\ last'.page = p
  /\ last'.arg = "main"
  /\ hasStorage["network"][p]
  /\ listeners["network"][p] > 0

\* C26: right after a rotation of the Network epochs of a page, the lookup
\* of an initiator by protocol request id returns undefined for every id,
\* while every request stored before is still found by its stable id; an
\* initiator recorded by requestWillBeSent is returned by the lookup, and
\* stays so in every step that neither rotates nor untracks the page.
C26_InitiatorMap ==
  [][\A p \in Pages :
       /\ NetworkRotation(p) =>
            /\ \A r \in InitiatorIds :
                 getInitiatorByRequestId(p, r)' = "undefined"
            /\ \A x \in Range(Flatten(storage["network"][p])) :
                 /\ getById("network", p, x.id)'.ok
                 /\ x \in Range(Flatten(storage'["network"][p]))
       /\ \A r \in InitiatorIds :
            ( /\ last'.op = "requestWillBeSent"
              /\ last'.page = p
              /\ last'.arg = r
              /\ hasInitiators[p] )
            => getInitiatorByRequestId(p, r)' = "initiator"
       /\ \A r \in InitiatorIds :
            ( /\ getInitiatorByRequestId(p, r) = "initiator"
              /\ ~NetworkRotation(p)
              /\ hasInitiators'[p] )
            => getInitiatorByRequestId(p, r)' = "initiator"
    ]_vars

\* A page that holds requests of an earlier epoch has rotated and an
\* initiator was recorded since: the lookup returns it.
C26_Witness ==
  /\ last.op = "requestWillBeSent"
  /\ last.page = "p1"
  /\ navs["network"]["p1"] >= 1
  /\ Len(storage["network"]["p1"]) >= 2
  /\ storage["network"]["p1"][2] # <<>>
  /\ getInitiatorByRequestId("p1", last.arg) = "initiator"


\* C27: a navigation of a frame that is not the main frame changes nothing
\* a collector holds for the page; a main-frame navigation of a tracked,
\* listening page rotates each collector's epochs exactly once.
C27_MainFrameOnly ==
  [][\A p \in Pages :
       (last'.op = "framenavigated" /\ last'.page = p) =>
         IF last'.arg # "main"
         THEN /\ \A k \in GenericKinds : storage'[k][p] = storage[k][p]
              /\ wsStorage'[p] = wsStorage[p]
              /\ initiators'[p] = initiators[p]
              /\ connectionMap'[p] = connectionMap[p]
              /\ handlerMap'[p] = handlerMap[p]
              /\ \A k \in Kinds : navs'[k][p] = navs[k][p]
         ELSE /\ \A k \in GenericKinds :
                   (hasStorage[k][p] /\ listeners[k][p] > 0) =>
                     /\ storage'[k][p] = split(k, storage[k][p])
                     /\ navs'[k][p] = navs[k][p] + 1
              /\ (wsHasStorage[p] /\ wsPageL[p] > 0) =>
                   /\ wsStorage'[p] = wsSplitAfterNavigation(wsStorage[p])
                   /\ navs'["websocket"][p] = navs["websocket"][p] + 1
              /\ \A k \in Kinds : Tracked(k, p) => navs'[k][p] = navs[k][p] + 1
    ]_vars

\* A frame other than the main frame navigated on a page that holds
\* requests and initiators.
C27_Witness ==
  /\ last.op = "framenavigated"
  /\ last.arg = "sub"
  /\ last.page = "p1"
  /\ hasStorage["network"]["p1"]
  /\ storage["network"]["p1"][1] # <<>>
  /\ initiators["p1"] # EmptyMap


\* What the collector of kind k holds for page p.
pageStateOf(k, p) ==
  IF k = "websocket"
  THEN <<wsStorage[p], wsHasStorage[p], wsIdGen[p], connectionMap[p],
         handlerMap[p], wsHasCdp[p], wsCdp[p], wsPageL[p]>>
  ELSE <<storage[k][p], hasStorage[k][p], idGen[k][p], listeners[k][p],
         IF k = "network"
         THEN <<initiators[p], hasInitiators[p], netCdp[p], netRegistered[p]>>
         ELSE <<>> >>

\* The identities of the items in the epoch store of collector k for page p.
storedSeqs(k, p) == {x.seq : x \in Range(Flatten(Stored(k, p)))}

\* C28: an operation for page p leaves what every collector holds for every
\* other page as it was; an operation of one collector leaves what the other
\* collectors hold as it was; no item sits in two epoch stores.
C28_Isolation ==
  /\ [](\A k1 \in Kinds, k2 \in Kinds, p1 \in Pages, p2 \in Pages :
          <<k1, p1>> # <<k2, p2>> =>
            storedSeqs(k1, p1) \cap storedSeqs(k2, p2) = {})
  /\ [][\A p \in Pages :
          last'.page = p =>
            /\ \A k \in Kinds, q \in Pages \ {p} :
                 pageStateOf(k, q)' = pageStateOf(k, q)
            /\ \A k \in Kinds :
                 last'.kind = k =>
                   \A j \in Kinds \ {k}, q \in Pages :
                     pageStateOf(j, q)' = pageStateOf(j, q)
     ]_vars

\* The page opened later has collected an item after being tracked while the
\* first page holds one of its own.
C28_Witness ==
  /\ last.op = "collect"
  /\ last.page = "p2"
  /\ focus.kind \in GenericKinds
  /\ Flatten(storage[focus.kind]["p1"]) # <<>>
  /\ Flatten(storage[focus.kind]["p2"]) # <<>>


\* The number of bytes of a frame's payload: of the decoded bytes for a
\* binary frame, whose payloadData is base64 text, and of the text otherwise.
byteLength(frame) ==
  IF frame.opcode = 2 /\ atob(frame.payloadData).ok
  THEN Len(atob(frame.payloadData).bytes)
  ELSE Len(frame.payloadData)

\* Frames i and j (from 0) are members of one group of the summary.
sameGroup(summary, i, j) ==
  \E id \in DOMAIN summary.groupToIndices :
    {i, j} \subseteq Range(summary.groupToIndices[id])

\* C29: two frames of the analysed list are in the same group if and only if
\* they have the same direction, the same 4-byte fingerprint and the same
\* size bucket, the bucket being that of the payload's length in bytes.
C29_GroupingKey ==
  \A n \in 1..Len(fpSummaries) :
    \A i \in 1..Len(fpFrames), j \in 1..Len(fpFrames) :
      sameGroup(fpSummaries[n], i - 1, j - 1)
      <=> /\ fpFrames[i].direction = fpFrames[j].direction
          /\ getHead4B(fpFrames[i].payloadData, fpFrames[i].opcode)
               = getHead4B(fpFrames[j].payloadData, fpFrames[j].opcode)
          /\ getSizeCategory(byteLength(fpFrames[i]))
               = getSizeCategory(byteLength(fpFrames[j]))


\* The index (from 0) of the first frame of the group with this id.
firstIndex(summary, id) == summary.groupToIndices[id][1]

\* C30: the group table is in descending order of count; of two groups of
\* one count the one whose first frame came earlier stands first; the ids
\* follow the table's order, so group "A" has the largest count.
C30_GroupOrder ==
  \A n \in 1..Len(fpSummaries) :
    LET summary == fpSummaries[n]
        groups == summary.groups
    IN  /\ \A i \in 1..Len(groups), j \in 1..Len(groups) :
             i < j =>
               /\ groups[i].count >= groups[j].count
               /\ groups[i].count = groups[j].count =>
                    firstIndex(summary, groups[i].id)
                      < firstIndex(summary, groups[j].id)
        /\ \A i \in 1..Len(groups) :
             /\ groups[i].id = generateGroupId(i - 1)
             /\ groups[i].count = Len(summary.groupToIndices[groups[i].id])
             /\ \A x \in Range(summary.groupToIndices[groups[i].id]) :
                  firstIndex(summary, groups[i].id) <= x
        /\ \A g \in 1..Len(groups) :
             groups[g].id = <<"A">> =>
               \A h \in 1..Len(groups) : groups[h].count <= groups[g].count

\* A summary of three groups: the largest is "A" although its first frame
\* came after that of "B"; "B" and "C" have one count and "B" came first.
C30_Witness ==
  /\ fpSummaries # <<>>
  /\ Len(fpSummaries[1].groups) = 3
  /\ fpSummaries[1].groups[1].id = <<"A">>
  /\ fpSummaries[1].groups[1].count > fpSummaries[1].groups[2].count
  /\ fpSummaries[1].groups[2].count = fpSummaries[1].groups[3].count
  /\ firstIndex(fpSummaries[1], <<"A">>) > firstIndex(fpSummaries[1], <<"B">>)
  /\ firstIndex(fpSummaries[1], <<"B">>) < firstIndex(fpSummaries[1], <<"C">>)


\* C31: the summary's total is the length of the frame list and the sum of
\* the sent and received counts; the id index holds every group's members,
\* so each frame index 0..n-1 is in exactly one group's list; a group's
\* count is the length of its list and its samples are the list's first
\* min(3, count) entries.
C31_SummaryConsistency ==
  \A n \in 1..Len(fpSummaries) :
    LET summary == fpSummaries[n]
        groups == summary.groups
        members(g) == summary.groupToIndices[groups[g].id]
    IN  /\ summary.totalFrames = Len(fpFrames)
        /\ summary.totalFrames = summary.sentCount + summary.receivedCount
        /\ DOMAIN summary.groupToIndices =
             {groups[g].id : g \in 1..Len(groups)}
        /\ \A i \in 0..(Len(fpFrames) - 1) :
             Cardinality({g \in 1..Len(groups) :
                            \E k \in 1..Len(members(g)) : members(g)[k] = i}) = 1
        /\ \A g \in 1..Len(groups) :
             /\ Cardinality(Range(members(g))) = Len(members(g))
             /\ Range(members(g)) \subseteq 0..(Len(fpFrames) - 1)
             /\ groups[g].count = Len(members(g))
             /\ Len(groups[g].sampleIndices) =
                  (IF groups[g].count < 3 THEN groups[g].count ELSE 3)
             /\ \A k \in 1..Len(groups[g].sampleIndices) :
                  groups[g].sampleIndices[k] = members(g)[k]

\* A list of sent and received frames was analysed into a group of more than
\* three members and another group.
C31_Witness ==
  /\ fpSummaries # <<>>
  /\ fpSummaries[1].sentCount > 0
  /\ fpSummaries[1].receivedCount > 0
  /\ Len(fpSummaries[1].groups) >= 2
  /\ \E g \in 1..Len(fpSummaries[1].groups) :
       fpSummaries[1].groups[g].count > 3


\* The frames, at this moment, of the connection wsid names on the selected
\* page.
framesNow(wsid) == wsGetById(selectedPage, wsid).item.frames

\* C32: a call of get_websocket_messages with a groupId uses the entry
\* cached under the wsid and leaves the cache alone when there is one.  A
\* tool call that writes the entry of a wsid (analyze_websocket_messages, or
\* get_websocket_messages when it found no entry) puts there, in place of
\* what was there, the summary of the frames it took from the connection:
\* the connection's frames of that moment (for analyze, those of the
\* direction asked for; for get, all of them); it touches no other entry.
C32_CacheRefresh ==
  /\ [](\A wsid \in DOMAIN trafficSummaryCache \cap Wsids :
         \A direction \in Directions, groupId \in GroupIds :
           LET out == getWebSocketMessages(wsid, direction, groupId)
           IN  out.ok => /\ out.cache = trafficSummaryCache
                         /\ out.summary = trafficSummaryCache[wsid])
  /\ [][\A wsid \in Wsids :
       (/\ wsid \in DOMAIN cachedFrom'
        /\ wsid \in DOMAIN cachedFrom => cachedFrom'[wsid] # cachedFrom[wsid]) =>
         LET from == cachedFrom'[wsid]
             analysed == from.frames
         IN  /\ wsGetById(selectedPage, wsid).ok
             /\ \E direction \in Directions :
                  analysed =
                    IF direction = undefined THEN framesNow(wsid)
                    ELSE SelectSeq(framesNow(wsid),
                                   LAMBDA f : f.direction = direction[1])
             /\ DOMAIN trafficSummaryCache' =
                  DOMAIN trafficSummaryCache \cup {wsid}
             /\ trafficSummaryCache'[wsid] =
                  analyzeWebSocketFramesV2(analysed, wsid, ConnectionUrl)
             /\ \A w \in DOMAIN trafficSummaryCache \ {wsid} :
                  trafficSummaryCache'[w] = trafficSummaryCache[w]
    ]_vars

\* A summary was cached for connection 1 of the selected page, a frame has
\* arrived since, and get_websocket_messages still goes by the cached one.
C32_Witness ==
  /\ 1 \in DOMAIN trafficSummaryCache
  /\ wsGetById(selectedPage, 1).ok
  /\ cachedFrom[1].page = selectedPage
  /\ cachedFrom[1].seq = wsGetById(selectedPage, 1).item.seq
  /\ trafficSummaryCache[1].totalFrames > 0
  /\ trafficSummaryCache[1].totalFrames < Len(framesNow(1))
  /\ getWebSocketMessages(1, undefined, <<"A">>).cached

\* C35: every frame get_websocket_messages lists for a group is, in the
\* connection's frame list, a frame with the direction, fingerprint and
\* size bucket of that group.
C35_DrillDown ==
  \A wsid \in Wsids, groupId \in GroupIds,
     direction \in {undefined, Some("sent"), Some("received")} :
    LET out == getWebSocketMessages(wsid, direction, groupId) IN
    out.ok =>
      \A k \in 1..Len(out.listed) :
        /\ out.listed[k] < Len(out.frames)
        /\ \E g \in 1..Len(out.summary.groups) :
             /\ out.summary.groups[g].id = out.groupId
             /\ groupKey(out.frames[out.listed[k] + 1]) =
                  <<out.summary.groups[g].direction,
                    out.summary.groups[g].head4B,
                    out.summary.groups[g].sizeCategory>>

\* C36: the summary get_websocket_messages takes from the cache for a wsid
\* was computed from the connection that wsid names on the selected page.
C36_OneConnection ==
  \A wsid \in Wsids :
    LET out == getWebSocketMessages(wsid, undefined, <<"A">>) IN
    (out.ok /\ out.cached) =>
      /\ cachedFrom[wsid].page = selectedPage
      /\ cachedFrom[wsid].seq = out.seq

\* C34: for every tracked page and collector kind, as long as the id
\* generator of that page has not wrapped around, the Stable IDs of the
\* items getData(page, true) returns are strictly increasing along the
\* returned sequence, whatever item events, navigations and Network cuts
\* came before.
C34_IdsFollowCaptureOrder ==
  \A k \in Kinds : \A p \in Pages :
    ~wrapped[k][p] =>
      LET items == allItems(k, p)
      IN  \A i \in 1..Len(items) : \A j \in 1..Len(items) :
            i < j => items[i].id < items[j].id

\* A Network cut has moved a navigation request into the new epoch, an older
\* request stays in the epoch behind it, and both are returned.
C34_Witness ==
  /\ hasStorage["network"]["p1"]
  /\ ~wrapped["network"]["p1"]
  /\ last.op = "framenavigated"
  /\ Len(storage["network"]["p1"]) >= 2
  /\ Len(storage["network"]["p1"][1]) >= 1
  /\ Len(storage["network"]["p1"][2]) >= 1
  /\ Len(getData("network", "p1", TRUE)) >= 2

\* C33: resume, stepOver, stepInto, stepOut and evaluateOnCallFrame send
\* their command exactly when a client is kept and the recorded state is
\* paused, and to that client; otherwise they fail with 'Debugger not
\* enabled' (no client) or 'Execution is not paused', send nothing, and in
\* either case leave the paused state, the breakpoints and the scripts as
\* they were.
C33_StepRevalidation ==
  [][(dbgLast' # dbgLast /\ dbgLast'.op \in Steps) =>
       /\ debuggerContext' = debuggerContext
       /\ IF debuggerContext.client # "none" /\ debuggerContext.isPaused
          THEN /\ dbgLast'.result = "sent"
               /\ dbgLast'.sent = debuggerContext.client
          ELSE /\ dbgLast'.sent = "-"
               /\ dbgLast'.result =
                    IF debuggerContext.client = "none"
                    THEN "Debugger not enabled"
                    ELSE "Execution is not paused"]_vars

\* A stepping command was refused because execution is not paused, while a
\* client is kept and a script and a breakpoint are known.
C33_Witness ==
  /\ dbgLast.op \in Steps
  /\ dbgLast.result = "Execution is not paused"
  /\ debuggerContext.client # "none"
  /\ debuggerContext.scripts # {}
  /\ debuggerContext.breakpoints # {}

\* C37: isPaused() is true exactly when a client is attached and the most
\* recent Debugger.paused / Debugger.resumed event that client has delivered
\* since it was attached was a paused event; in particular it is false when
\* no client is attached and right after a new client is attached.
C37_PausedTracking ==
  debuggerContext.isPaused <=>
    (debuggerContext.client # "none" /\ attached = "paused")

\* C38: once every call of #init, #initDebugger and reinitDebugger has
\* settled, the listeners of the DebuggerContext are registered on exactly
\* one protocol client, the client of the selected page, and once each.
C38_OneClient ==
  dbgTasks = <<>> =>
    \A p \in Pages : dbgListeners[p] = IF p = selectedPage THEN 1 ELSE 0

\* C39: when Debugger.enable has failed inside enable(client), the context is
\* not enabled, keeps no client, and no listener is left on that client.
C39_NoResidue ==
  (dbgLast.op = "enable" /\ dbgLast.result = "failed") =>
    /\ ~debuggerContext.enabled
    /\ debuggerContext.client = "none"
    /\ dbgListeners[dbgLast.sent] = 0

====
